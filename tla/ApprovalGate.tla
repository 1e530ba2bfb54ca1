---------------------------- MODULE ApprovalGate ----------------------------
(***************************************************************************)
(* What the gated tools promise, without graph, checkpoints or streams     *)
(* (the docstring of src/tools/case_tools.py): the user is shown a call,   *)
(* decides on it in a request, and a row is inserted for the call at most  *)
(* once for each request that approves it, and never otherwise.            *)
(***************************************************************************)
CONSTANTS Request, Call

VARIABLES
  shown,     \* the calls the user has been asked about
  granted,   \* pairs <<c, q>>: request q carries the approval of call c
  inserted   \* pairs <<c, q>>: request q inserted the row of call c

gateVars == <<shown, granted, inserted>>

GateInit == shown = {} /\ granted = {} /\ inserted = {}

Show(c) == /\ shown' = shown \cup {c}
           /\ UNCHANGED <<granted, inserted>>

Grant(c, q) == /\ c \in shown
               /\ \A d \in Call : <<d, q>> \notin granted
               /\ granted' = granted \cup {<<c, q>>}
               /\ UNCHANGED <<shown, inserted>>

Insert(c, q) == /\ <<c, q>> \in granted \ inserted
                /\ inserted' = inserted \cup {<<c, q>>}
                /\ UNCHANGED <<shown, granted>>

GateNext == \E c \in Call : Show(c) \/ \E q \in Request : Grant(c, q)
                                                       \/ Insert(c, q)

GateSpec == GateInit /\ [][GateNext]_gateVars
=============================================================================
