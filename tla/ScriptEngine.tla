---------------------------- MODULE ScriptEngine ----------------------------
(***************************************************************************)
(* What exe_service promises to the author of a script, with no word of    *)
(* multimaps, pointers, counters or condition variables: a wait call       *)
(* listens to its arguments, every event is seen by all who listen to it,  *)
(* and the call returns when it has what it asked for; a reload breaks the *)
(* wait calls off and starts the scripts afresh.  ExeServiceRefines shows  *)
(* that ExeService does this.                                              *)
(***************************************************************************)
EXTENDS Integers

CONSTANTS Scripts, Values, Requests

VARIABLES
    st,         \* what each script is doing
    call,       \* the arguments of its last wait call
    pending,    \* arguments it listens to, whose event has not happened
    got,        \* arguments of the call whose event has happened
    phase,      \* "running", or the phase of a reload
    starting,   \* scripts that the reload has still to start
    now         \* the time

vars == <<st, call, pending, got, phase, starting, now>>

NoCall == [or |-> FALSE, val |-> [p \in {} |-> p], due |-> [p \in {} |-> p]]

Args(c) == DOMAIN c.val \cup DOMAIN c.due

Fulfilled(s) == IF call[s].or THEN got[s] # {} ELSE got[s] = Args(call[s])

Init ==
    /\ st = [s \in Scripts |-> "none"]
    /\ call = [s \in Scripts |-> NoCall]
    /\ pending = [s \in Scripts |-> {}]
    /\ got = [s \in Scripts |-> {}]
    /\ phase = "stopped"
    /\ starting = {}
    /\ now = 0

-----------------------------------------------------------------------------
(* A script.                                                               *)

Call(s) ==
    /\ st[s] = "running"
    /\ st' = [st EXCEPT ![s] = "waiting"]
    /\ \E r \in Requests[s] :
          call' = [call EXCEPT ![s] =
                     [or |-> r.or, val |-> r.val,
                      due |-> [p \in DOMAIN r.delay |-> now + r.delay[p]]]]
    /\ got' = [got EXCEPT ![s] = {}]
    /\ UNCHANGED <<pending, phase, starting, now>>

\* The call begins to listen to more of its arguments.
Listen(s) ==
    /\ st[s] = "waiting"
    /\ \E new \in SUBSET (Args(call[s]) \ got[s]) :
          pending' = [pending EXCEPT ![s] = pending[s] \cup new]
    /\ UNCHANGED <<st, call, got, phase, starting, now>>

\* It stops listening only when it has what it asked for or is broken off.
Close(s) ==
    /\ st[s] = "waiting"
    /\ Fulfilled(s) \/ phase = "stopping"
    /\ \E some \in SUBSET pending[s] :
          pending' = [pending EXCEPT ![s] = some]
    /\ UNCHANGED <<st, call, got, phase, starting, now>>

Return(s) ==
    /\ st[s] = "waiting"
    /\ Fulfilled(s)
    /\ pending[s] = {}
    /\ phase # "stopping"
    /\ st' = [st EXCEPT ![s] = "running"]
    /\ UNCHANGED <<call, pending, got, phase, starting, now>>

BreakOff(s) ==
    /\ st[s] = "waiting"
    /\ pending[s] = {}
    /\ phase = "stopping"
    /\ st' = [st EXCEPT ![s] = "ended"]
    /\ UNCHANGED <<call, pending, got, phase, starting, now>>

End(s) ==
    /\ st[s] = "running"
    /\ st' = [st EXCEPT ![s] = "ended"]
    /\ UNCHANGED <<call, pending, got, phase, starting, now>>

-----------------------------------------------------------------------------
(* Events reach everyone who listens to them, once, at the same moment.    *)

Deliver(heard) ==
    /\ got' = [s \in Scripts |-> got[s] \cup heard[s]]
    /\ pending' = [s \in Scripts |-> pending[s] \ heard[s]]
    /\ UNCHANGED <<st, call, phase, starting, now>>

ValueEvent(v) ==
    Deliver([s \in Scripts |->
                {p \in pending[s] : p \in DOMAIN call[s].val /\ call[s].val[p] = v}])

TimeEvent ==
    Deliver([s \in Scripts |->
                {p \in pending[s] : p \in DOMAIN call[s].due /\ call[s].due[p] <= now}])

Tick ==
    /\ now' = now + 1
    /\ UNCHANGED <<st, call, pending, got, phase, starting>>

-----------------------------------------------------------------------------
(* A reload: no script is left when the new ones are chosen, and each of   *)
(* those starts at most once.                                              *)

Stop ==
    /\ phase = "running"
    /\ phase' = "stopping"
    /\ UNCHANGED <<st, call, pending, got, starting, now>>

Reap ==
    /\ phase = "stopping"
    /\ \A s \in Scripts : st[s] \in {"none", "ended"} /\ pending[s] = {}
    /\ phase' = "stopped"
    /\ st' = [s \in Scripts |-> "none"]
    /\ UNCHANGED <<call, pending, got, starting, now>>

Choose ==
    /\ phase = "stopped"
    /\ phase' = "starting"
    /\ starting' \in SUBSET Scripts
    /\ UNCHANGED <<st, call, pending, got, now>>

\* A script may be refused (it does not compile).
Start(s) ==
    /\ phase = "starting"
    /\ s \in starting
    /\ st[s] = "none"
    /\ starting' = starting \ {s}
    /\ \E to \in {"none", "running"} : st' = [st EXCEPT ![s] = to]
    /\ UNCHANGED <<call, pending, got, phase, now>>

Started ==
    /\ phase = "starting"
    /\ starting = {}
    /\ phase' = "running"
    /\ UNCHANGED <<st, call, pending, got, starting, now>>

Next ==
    \/ \E s \in Scripts :
          \/ Call(s) \/ Listen(s) \/ Close(s) \/ Return(s) \/ BreakOff(s)
          \/ End(s) \/ Start(s)
    \/ \E v \in Values : ValueEvent(v)
    \/ TimeEvent \/ Tick
    \/ Stop \/ Reap \/ Choose \/ Started

Spec == Init /\ [][Next]_vars

=============================================================================
