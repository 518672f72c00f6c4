---------------------------- MODULE MCTcpConnection ----------------------------
EXTENDS TcpConnection
=============================================================================
