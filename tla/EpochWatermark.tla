--------------------------- MODULE EpochWatermark ---------------------------
(***************************************************************************)
(* What the epoch authority promises its users: commit tickets are handed  *)
(* out in order, every ticket is resolved (published or abandoned) once,   *)
(* and the reader watermark only ever moves forward, over tickets that are *)
(* all resolved.  EpochAuthority (crates/mongreldb-core/src/epoch.rs) is   *)
(* shown to implement this.                                                *)
(***************************************************************************)
EXTENDS Integers

VARIABLES
    assigned,   \* the last ticket handed out
    visible,    \* the reader watermark
    resolved    \* tickets that are published or abandoned

wvars == <<assigned, visible, resolved>>

WatermarkInit ==
    /\ assigned \in Nat
    /\ visible = assigned
    /\ resolved = 1..assigned

\* A committer takes the next ticket.
Assign ==
    /\ assigned' = assigned + 1
    /\ UNCHANGED <<visible, resolved>>

\* The holder of an unresolved ticket publishes or abandons it.
Resolve ==
    \E e \in (1..assigned) \ resolved :
        /\ resolved' = resolved \cup {e}
        /\ UNCHANGED <<assigned, visible>>

\* The watermark moves over a run of resolved tickets.
Advance ==
    \E n \in (visible + 1)..assigned :
        /\ ((visible + 1)..n) \subseteq resolved
        /\ visible' = n
        /\ UNCHANGED <<assigned, resolved>>

\* Opening a database raises the clock while no ticket is out.
Recover ==
    /\ resolved = 1..assigned
    /\ assigned' \in Nat
    /\ assigned' >= assigned
    /\ visible' \in visible..assigned'
    /\ resolved' = 1..assigned'

WatermarkNext == Assign \/ Resolve \/ Advance \/ Recover

WatermarkSpec == WatermarkInit /\ [][WatermarkNext]_wvars
=============================================================================
