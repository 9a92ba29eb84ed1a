---------------------------- MODULE MCRpcServer -----------------------------
(***************************************************************************)
(* The servers that are explored: one with the activation run, one whose   *)
(* requests can be cancelled, and one that also retains its issues and     *)
(* checks every sender.                                                    *)
(***************************************************************************)
EXTENDS RpcServer

Servers == { {"activation"},
             {"admission", "cancellation"},
             {"admission", "cancellation", "issues", "strict"} }

=============================================================================
