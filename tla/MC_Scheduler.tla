---------------------------- MODULE MC_Scheduler ----------------------------
(***************************************************************************)
(* Model values for Scheduler.  Three library components: two versions   *)
(* of component A that depend on numpy 1, and component B that depends on *)
(* numpy 2, so a worker warmed by A suits the next version of A (L2/L3)  *)
(* and a worker warmed by A must not run B.                               *)
(***************************************************************************)
EXTENDS Scheduler, MessageFraming

CONSTANTS w1, w2, w3, w4, A0, A1, B0

MCWorkers    == {w1, w2, w3}
MCWorkers4   == MCWorkers \cup {w4}
MCComponents == {A0, A1, B0}
MCCompName    == (A0 :> "A") @@ (A1 :> "A") @@ (B0 :> "B")
MCCompVersion == (A0 :> "master.0.0") @@ (A1 :> "master.0.1")
                 @@ (B0 :> "master.0.0")
MCCompPkgs    == (A0 :> {<<"numpy", 1>>}) @@ (A1 :> {<<"numpy", 1>>})
                 @@ (B0 :> {<<"numpy", 2>>})
MCBasePkgs   == {}
(* The workers share one environment, where numpy 1 is installed: B0's *)
(* manifest, recorded elsewhere, names numpy 2.                         *)
MCInstalled  == "numpy" :> 1

(* The text of the worker and component ids (uuid4 strings and component *)
(* ids in the code).                                                       *)
MCWorkerIdText == (w1 :> <<"w", "1">>) @@ (w2 :> <<"w", "2">>) @@ (w3 :> <<"w", "3">>)
                  @@ (w4 :> <<"w", "2", "2">>)
MCCompIdText == (A0 :> <<"a", "0">>) @@ (A1 :> <<"a", "1">>) @@ (B0 :> <<"b", "0">>)

(* The done messages on the worker-to-coordinator channels, as the worker *)
(* frames them (spec section 6: sender, "done", arg0 = component id).      *)
DoneFrames ==
  UNION {{Msg(MCWorkerIdText[w], <<"d", "o", "n", "e">>, <<MCCompIdText[reqs[x.req].c]>>) :
            x \in {y \in ToSet(outbox[w]) : y.cmd = "done"}} : w \in Workers}

(* Spec section 8, test 5: a framed message survives the channel.  Every  *)
(* message built from the senders, commands and arguments MessageFraming  *)
(* lists, and every done message a worker has in flight, comes out of     *)
(* Message.load as Message.dump framed it.                                  *)
MessageRoundTrip ==
  /\ FramedMessagesRoundTrip
  /\ \A m \in DoneFrames : RoundTrips(m)
====
