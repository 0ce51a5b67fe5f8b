---------------------------- MODULE MCExeScripts ----------------------------
(***************************************************************************)
(* Two bounded instances of ExeService for one run: a behaviour has either *)
(* messages and no reload, or reloads and edits of the table and no        *)
(* message.  What it does not have is at its bound when it begins.         *)
(***************************************************************************)
EXTENDS MCExeService

CONSTANTS d, e    \* a fourth and a fifth script

\* With messages a waits for a value and a time point and b for either of two
\* values; with reloads c waits for time points, d is not registered for its
\* parameters, and e does not compile.
ModeRequests ==
    SmallRequests @@ c :> TimeRequests[c] @@ d :> TimeRequests[d] @@ e :> TimeRequests[e]

OtherTables == SUBSET {c, d, e}

\* Two messages for one script, one for two.
Messages ==
    /\ dbScripts \subseteq {a, b}
    /\ msgs = IF dbScripts = {a, b} THEN MaxMsgs - 1 ELSE MaxMsgs - 2
    /\ reloads = MaxReloads /\ dbVer = MaxEdits

ReloadsAndEdits ==
    /\ dbScripts \in OtherTables
    /\ msgs = MaxMsgs
    /\ reloads = 0 /\ dbVer = 0

ModeInit == StartOfMain /\ (Messages \/ ReloadsAndEdits)

ModeSpec == ModeInit /\ [][Next]_vars /\ Fairness
=============================================================================
