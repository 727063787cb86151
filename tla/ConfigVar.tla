----------------------------- MODULE ConfigVar -----------------------------
(***************************************************************************)
(* One ConfigVar (config.h): setValue() by several threads, with listeners *)
(* that keep the value they were told, as the ones of hook.cc and log.cc   *)
(* do.  setValue() calls the listeners under the read lock, and takes the  *)
(* write lock for the assignment after it has released the read lock.      *)
(***************************************************************************)
EXTENDS Naturals

CONSTANTS Setters, Values, Default,
          Listeners     \* number of listeners, called in the order of their keys

ASSUME ConfigAssumption == Default \in Values /\ Listeners \in Nat

VARIABLES
    m_val,
    told,       \* listener -> the last new_value
    setter,     \* thread -> [at, v, next]: next is the listener to call
    crossed     \* some setValue() overlapped another since the last one alone

cvars == <<m_val, told, setter, crossed>>

ConfigInit ==
    /\ m_val = Default
    /\ told = [l \in 1..Listeners |-> Default]
    /\ setter = [t \in Setters |-> [at |-> "out", v |-> Default, next |-> 1]]
    /\ crossed = FALSE

Others(t) == {s \in Setters \ {t} : setter[s].at # "out"}

\* setValue(v): the read lock, and the comparison.
SetValue(t, v) ==
    /\ setter[t].at = "out" /\ v # m_val
    /\ setter' = [setter EXCEPT ![t] = [at |-> "tell", v |-> v, next |-> 1]]
    /\ crossed' = (Others(t) # {})
    /\ UNCHANGED <<m_val, told>>

\* i.second(m_val, v)
Tell(t) ==
    /\ setter[t].at = "tell" /\ setter[t].next <= Listeners
    /\ told' = [told EXCEPT ![setter[t].next] = setter[t].v]
    /\ setter' = [setter EXCEPT ![t].next = @ + 1]
    /\ UNCHANGED <<m_val, crossed>>

\* The read lock is released.
Told(t) ==
    /\ setter[t].at = "tell" /\ setter[t].next > Listeners
    /\ setter' = [setter EXCEPT ![t].at = "assign"]
    /\ UNCHANGED <<m_val, told, crossed>>

\* Mutant: a value that somebody else has changed is kept.
AssignFirst(t) ==
    /\ setter[t].at = "assign"
    /\ \A s \in Setters : setter[s].at # "tell"
    /\ m_val' = IF m_val = Default THEN setter[t].v ELSE m_val
    /\ setter' = [setter EXCEPT ![t].at = "out"]
    /\ UNCHANGED <<told, crossed>>

\* The write lock: no thread is calling listeners.
Assign(t) ==
    /\ setter[t].at = "assign"
    /\ \A s \in Setters : setter[s].at # "tell"
    /\ m_val' = setter[t].v
    /\ setter' = [setter EXCEPT ![t].at = "out"]
    /\ UNCHANGED <<told, crossed>>

ConfigNext ==
    \E t \in Setters : \/ \E v \in Values : SetValue(t, v)
                       \/ Tell(t) \/ Told(t) \/ Assign(t)

ConfigSpec == ConfigInit /\ [][ConfigNext]_cvars

-----------------------------------------------------------------------------
(* Properties.                                                             *)

\* When no setValue() is under way, every listener keeps the variable's value,
\* unless the last calls overlapped: the order in which they told a listener,
\* another listener, and assigned m_val may then be three different ones.
ListenersFollow ==
    (~crossed /\ \A t \in Setters : setter[t].at = "out") => \A l \in 1..Listeners : told[l] = m_val
=============================================================================
