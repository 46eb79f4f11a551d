------------------------------ MODULE MCRpcMessages ------------------------------
EXTENDS RpcMessages

\* Lengths on both sides of the four-byte alignment; a scalar equal to its
\* default and one that uses all its bytes.
MCStrings == {<<>>, <<65, 66, 67>>, <<65, 66, 67, 68, 69>>}
MCByteVectors == {<<>>, <<1>>, <<0, 255, 7, 0, 9, 12>>}
MCInt8s == {<<0>>, <<1>>}
MCInt32s == {<<0, 0, 0, 0>>, <<1, 2, 3, 4>>}
MCInt64s == {<<0, 0, 0, 0, 0, 0, 0, 0>>, <<1, 2, 3, 4, 5, 6, 7, 8>>, <<8, 0, 0, 0, 3, 0, 0, 0>>}

\* A block that grows several times, one that grows once, one that suffices.
MCInitialSizes == {8, 40, 256}
=============================================================================
