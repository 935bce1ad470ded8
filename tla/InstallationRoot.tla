--------------------------- MODULE InstallationRoot ---------------------------
(***************************************************************************)
(* The installation root (src/gateway/installation_root.py): the one row   *)
(* that says whether an installation may serve, in which epoch, and for    *)
(* each component the sequence below which its files may not fall.  Every  *)
(* operation is one transaction under the writer lock (_write), which      *)
(* either commits, or changes nothing, or commits an integrity lock and    *)
(* then fails.                                                             *)
(*                                                                         *)
(* A component's identity is chosen afresh with each epoch, and its digest *)
(* is a function of identity and sequence: an epoch and a floor stand for  *)
(* both.  The compare-and-swap on root_revision is left to the callers:    *)
(* whether what they read is still current.                                *)
(***************************************************************************)
EXTENDS Naturals

CONSTANTS
  Components,  \* desktop, gateway, gateway_assets, channel_media
  Operations,  \* digests that name a re-anchoring
  MaxEpoch,    \* bound on epochs
  None

VARIABLES
  root,        \* the row of installation_root
  comps,       \* the rows of installation_components
  receipts     \* the re-anchorings that were completed

rootVars == <<root, comps, receipts>>

RootRecord ==
  [epoch: 1..MaxEpoch,
   status: {"provisioning", "active", "maintenance_locked", "retired"},
   kind: {"none", "operator", "integrity", "component_addition", "reanchor",
          "retired"},
   op: Operations \union {None}]

\* fence: the floor was recovered and awaits its acknowledgement.
ComponentRecord ==
  [epoch: 1..MaxEpoch, bound: BOOLEAN, floor: Nat, fence: BOOLEAN]

Serving == root.status = "active"

Reanchoring == root.kind = "reanchor"

Unbound(e) == [epoch |-> e, bound |-> FALSE, floor |-> 0, fence |-> FALSE]

Active(r) == [r EXCEPT !.status = "active", !.kind = "none"]

Locked(r, kind, op) ==
  [r EXCEPT !.status = "maintenance_locked", !.kind = kind, !.op = op]

\* Refused without a trace: the transaction is rolled back.
Refused == UNCHANGED rootVars

AllBound(cs) == \A c \in Components : cs[c].bound

\* A new installation, or one of an earlier version that lacks the component
\* channel_media.
RootInit(addition) ==
  /\ \/ /\ root = [epoch |-> 1, status |-> "provisioning", kind |-> "none",
                   op |-> None]
        /\ comps = [c \in Components |-> Unbound(1)]
     \/ /\ root = [epoch |-> 1, status |-> "maintenance_locked",
                   kind |-> "component_addition", op |-> None]
        /\ comps = [c \in Components |-> [Unbound(1) EXCEPT !.bound = c # addition]]
  /\ receipts = {}

----------------------------------------------------------------------------
\* Faulty: a conflict locks whatever the root is doing.
IntegrityLockAlways ==
  /\ root' = Locked(root, "integrity", None)
  /\ UNCHANGED <<comps, receipts>>

\* A conflict locks the root for good; but a pending re-anchoring is never
\* destroyed by it, and a retired root stays retired.
IntegrityLock ==
  /\ root' = IF root.status = "retired" \/ Reanchoring
               THEN root
               ELSE Locked(root, "integrity", None)
  /\ UNCHANGED <<comps, receipts>>

TakesBindings(c, addition) ==
  \/ root.status = "provisioning"
  \/ Reanchoring
  \/ root.kind = "component_addition" /\ c = addition

\* Bind component c of epoch e at floor f.
Bind(c, e, f, addition) ==
  IF root.epoch # e \/ root.status \in {"active", "retired"}
    THEN Refused
  ELSE IF comps[c].bound
    THEN IF comps[c].floor = f THEN Refused ELSE IntegrityLock
  ELSE IF ~TakesBindings(c, addition)
    THEN Refused
  ELSE /\ comps' = [comps EXCEPT ![c].bound = TRUE, ![c].floor = f]
       /\ root' = IF AllBound(comps') /\ ~Reanchoring THEN Active(root) ELSE root
       /\ UNCHANGED receipts

\* Component c says that its files stand at f.  One step ahead is taken over,
\* behind a fence; anything else locks the root.
Verify(c, e, f) ==
  IF root.epoch # e \/ ~Serving
    THEN Refused
  ELSE IF ~comps[c].bound
    THEN IntegrityLock
  ELSE IF comps[c].floor = f \/ comps[c].fence
    THEN Refused
  ELSE IF f = comps[c].floor + 1
    THEN /\ comps' = [comps EXCEPT ![c].floor = f, ![c].fence = TRUE]
         /\ UNCHANGED <<root, receipts>>
  ELSE IntegrityLock

\* Component c has written, behind the fence at f, that it will not go outbound.
Acknowledge(c, e, f) ==
  IF root.epoch # e \/ ~Serving
    THEN Refused
  ELSE IF comps[c].floor = f /\ comps[c].fence
    THEN /\ comps' = [comps EXCEPT ![c].floor = f + 1, ![c].fence = FALSE]
         /\ UNCHANGED <<root, receipts>>
  ELSE IF comps[c].floor = f + 1 /\ ~comps[c].fence
    THEN Refused
  ELSE IntegrityLock

\* Component c has committed the step from f - 1 to f.
Advance(c, e, f) ==
  IF root.epoch # e \/ ~Serving \/ comps[c].floor = f
    THEN Refused
  ELSE IF comps[c].floor # f - 1
    THEN IntegrityLock
  ELSE IF comps[c].fence
    THEN Refused
  ELSE /\ comps' = [comps EXCEPT ![c].floor = f]
       /\ UNCHANGED <<root, receipts>>

----------------------------------------------------------------------------
EnterMaintenance ==
  /\ Serving
  /\ root' = Locked(root, "operator", None)
  /\ UNCHANGED <<comps, receipts>>

\* Only an operator's own lock is lifted without a new epoch.
ResumeActive ==
  /\ root.kind = "operator"
  /\ IF AllBound(comps)
       THEN root' = Active(root) /\ UNCHANGED <<comps, receipts>>
       ELSE IntegrityLock

\* A new epoch starts with new identities, none of them bound.
BeginReanchor(op) ==
  /\ \A r \in receipts : r.op # op
  /\ root.kind \in {"operator", "integrity"}
  /\ root.epoch < MaxEpoch
  /\ root' = [Locked(root, "reanchor", op) EXCEPT !.epoch = @ + 1]
  /\ comps' = [c \in Components |-> Unbound(root.epoch + 1)]
  /\ UNCHANGED receipts

CompleteReanchor(op) ==
  /\ Reanchoring /\ root.op = op
  /\ AllBound(comps)
  /\ receipts' = receipts \union {[op |-> op, epoch |-> root.epoch]}
  /\ root' = Active(root)
  /\ UNCHANGED comps

Retire ==
  /\ root.status # "retired" /\ ~Reanchoring
  /\ root' = [root EXCEPT !.status = "retired", !.kind = "retired", !.op = None]
  /\ UNCHANGED <<comps, receipts>>

----------------------------------------------------------------------------
RootTypeOK ==
  /\ root \in RootRecord
  /\ comps \in [Components -> ComponentRecord]
  /\ receipts \subseteq [op: Operations, epoch: 1..MaxEpoch]

\* Only a fully bound installation serves, and all of it belongs to the epoch.
ServesWhole ==
  /\ Serving => AllBound(comps)
  /\ \A c \in Components : comps[c].epoch = root.epoch

\* Every epoch after the first serves by the receipt of one operation, and no
\* operation opens two epochs.
EpochsHaveReceipts ==
  /\ Serving /\ root.epoch > 1 => \E r \in receipts : r.epoch = root.epoch
  /\ \A r, s \in receipts : r.op = s.op \/ r.epoch = s.epoch => r = s

\* An epoch never goes back and within it no floor is lowered and no binding
\* undone; a retired root changes no more; a pending re-anchoring ends by its
\* completion only; an integrity lock is not lifted within its epoch.
RootStep ==
  /\ root'.epoch >= root.epoch
  /\ root.status = "retired" => UNCHANGED rootVars
  /\ Reanchoring =>
       /\ root'.epoch = root.epoch
       /\ Reanchoring' \/ [op |-> root.op, epoch |-> root.epoch] \in receipts'
  /\ root.kind = "integrity" =>
       root'.kind \in {"integrity", "reanchor", "retired"}
  /\ receipts \subseteq receipts'
  /\ root'.epoch = root.epoch =>
       \A c \in Components :
         comps[c].bound => /\ comps'[c].bound
                           /\ comps'[c].floor >= comps[c].floor

\* Only a whole epoch with its receipt serves; epochs, floors, retirement and a
\* pending re-anchoring are never undone.
RootIsKept == [][ServesWhole' /\ EpochsHaveReceipts' /\ RootStep]_rootVars
=============================================================================
