----------------------------- MODULE MC_Examples ----------------------------
(***************************************************************************)
(* The four example programs, with the debugger off, and with a user who   *)
(* steps, continues or leaves at every prompt.                             *)
(***************************************************************************)
EXTENDS Examples

MC_PrintDevices == {\hFFFB}
MC_DebugModes == BOOLEAN
MC_Lines == {[name |-> n, args |-> <<>>] : n \in {"", "step", "continue", "exit"}}
            \cup {[name |-> "get", args |-> <<\h20000>>]}
=============================================================================
