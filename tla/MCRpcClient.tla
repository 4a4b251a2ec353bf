---------------------------- MODULE MCRpcClient -----------------------------
EXTENDS RpcClient
=============================================================================
