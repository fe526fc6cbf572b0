------------------------------- MODULE MCPipe -------------------------------
EXTENDS Pipe, TLC

\* A single byte, and more bytes than the pipe holds.
TwoWrites == {<<0>>, <<1, 0, 1>>}
=============================================================================
