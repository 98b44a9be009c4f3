------------------------------- MODULE MCRpc --------------------------------
(***************************************************************************)
(* Rpc with two requesters that make three requests in all, sockets that   *)
(* hold one fragment, and one data buffer in the server, so that writers   *)
(* block between header and payload and receiver and handlers wait for     *)
(* buffers.  The client has a message for each request, each response and  *)
(* its receiver, and a data buffer for each task and its receiver.  The    *)
(* device fails at most one read or write (MaxErr).                        *)
(***************************************************************************)
EXTENDS Rpc

MCMsgMax  == [client |-> 5, server |-> 3]
MCDataMax == [client |-> 3, server |-> 1]
=============================================================================
