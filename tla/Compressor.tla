----------------------------- MODULE Compressor -----------------------------
(***************************************************************************)
(* What one deflate stream promises its caller, whatever the level: bytes  *)
(* handed in (fed) become decodable from the output (shown), in order, at  *)
(* the compressor's leisure; a flush or a finish returns only when         *)
(* everything fed is decodable, every call returns, and a finished stream  *)
(* accepts and shows nothing more.  A call that has nothing to do may be   *)
(* skipped, but never a finish, and a flush only when nothing is held      *)
(* back.  Deflater.Deflate and the Writer above it rely on this contract.  *)
(***************************************************************************)
EXTENDS Naturals

CONSTANTS Idle,  \* mode between calls
          Done   \* mode after the call that finished the stream

VARIABLES fed, shown, mode,
          last   \* flush of the latest call

compressor == <<fed, shown, mode, last>>

Modes   == {"none", "partial", "sync", "full", "finish"}
Calling == mode \in Modes

Init == fed = 0 /\ shown = 0 /\ mode = Idle /\ last = "unused"

\* A call with flush f hands in some bytes, or none
Call(f) ==
  /\ mode = Idle
  /\ fed' \in Nat /\ fed' >= fed
  /\ mode' = f /\ last' = f /\ UNCHANGED shown

\* A call that has nothing to do
Skip(f) ==
  /\ mode = Idle /\ f # "finish"
  /\ f # "none" => shown = fed
  /\ last' = f /\ UNCHANGED <<fed, shown, mode>>

\* More of the input becomes decodable while a call runs
Emit ==
  /\ Calling
  /\ shown' \in (shown + 1) .. fed
  /\ UNCHANGED <<fed, mode, last>>

\* The call returns; unless it only fed bytes, nothing is held back any more
Return ==
  /\ Calling
  /\ shown' \in shown .. fed
  /\ mode # "none" => shown' = fed
  /\ mode' = IF mode = "finish" THEN Done ELSE Idle
  /\ UNCHANGED <<fed, last>>

Next == (\E f \in Modes : Call(f) \/ Skip(f)) \/ Emit \/ Return

Spec == Init /\ [][Next]_compressor /\ WF_compressor(Return)
=============================================================================
