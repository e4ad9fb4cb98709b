----------------------------- MODULE Resources -----------------------------
(***************************************************************************)
(* The core's resource manager: callers take the permits that they need    *)
(* one at a time, first all of the CPU, then of the GPU, then of memory,   *)
(* keep what they have while they wait, and give all of it back when they  *)
(* are done or their time is up.  The pool of memory has one permit,       *)
(* however many megabytes there are.                                       *)
(***************************************************************************)
EXTENDS Naturals

CONSTANTS
  Caller,
  Limit      \* resource_limits: [cpu, gpu, memory |-> number]

VARIABLES
  free,      \* permits of each pool that nobody holds
  held,      \* permits that each caller holds
  want,      \* what each caller asked for
  phase,     \* of each caller: "idle", "waiting" or "granted"
  listed     \* active_allocations: whether anything was ever granted

resourceVars == <<free, held, want, phase, listed>>

Kinds == {"cpu", "gpu", "memory"}
Nothing == [k \in Kinds |-> 0]

Pool == [Limit EXCEPT !["memory"] = 1]

ResourcesInit ==
  /\ free = Pool
  /\ held = [c \in Caller |-> Nothing]
  /\ want = [c \in Caller |-> Nothing]
  /\ phase = [c \in Caller |-> "idle"]
  /\ listed = FALSE

\* InsufficientResources: what can never be granted is refused at once.
Possible(need) == \A k \in Kinds : need[k] <= Limit[k]

Ask(c, need) ==
  /\ phase[c] = "idle" /\ Possible(need)
  /\ want' = [want EXCEPT ![c] = need]
  /\ phase' = [phase EXCEPT ![c] = "waiting"]
  /\ UNCHANGED <<free, held, listed>>

Lacks(c, k) == held[c][k] < want[c][k]

\* The kind that the caller takes next.
NextKind(c) == CHOOSE k \in Kinds :
  /\ Lacks(c, k)
  /\ k = "gpu" => ~Lacks(c, "cpu")
  /\ k = "memory" => ~Lacks(c, "cpu") /\ ~Lacks(c, "gpu")

Take(c) ==
  /\ phase[c] = "waiting" /\ \E k \in Kinds : Lacks(c, k)
  /\ free[NextKind(c)] > 0
  /\ free' = [free EXCEPT ![NextKind(c)] = @ - 1]
  /\ held' = [held EXCEPT ![c][NextKind(c)] = @ + 1]
  /\ UNCHANGED <<want, phase, listed>>

\* The allocation that is listed has no permits; the guard removes it from a copy of
\* the list, so that it stays.
Grant(c) ==
  /\ phase[c] = "waiting" /\ \A k \in Kinds : ~Lacks(c, k)
  /\ phase' = [phase EXCEPT ![c] = "granted"]
  /\ listed' = TRUE
  /\ UNCHANGED <<free, held, want>>

\* The permits go back as they are dropped, whether with the guard or with the future
\* that was still collecting them.
GiveBack(c) == free' = [k \in Kinds |-> free[k] + held[c][k]]

Leave(c) ==
  /\ GiveBack(c)
  /\ held' = [held EXCEPT ![c] = Nothing]
  /\ want' = [want EXCEPT ![c] = Nothing]
  /\ phase' = [phase EXCEPT ![c] = "idle"]
  /\ UNCHANGED listed

\* MUTANT of TimeUp: only the wait for the first permit is timed.
TimeUpAtFirst(c) == phase[c] = "waiting" /\ held[c] = Nothing /\ Leave(c)

TimeUp(c) == phase[c] = "waiting" /\ Leave(c)
Release(c) == phase[c] = "granted" /\ Leave(c)

-----------------------------------------------------------------------------
(* Properties.                                                             *)

HeldOf(k, C) ==
  LET sum[S \in SUBSET C] ==
        IF S = {} THEN 0
        ELSE LET c == CHOOSE c \in S : TRUE IN held[c][k] + sum[S \ {c}]
  IN sum[C]

\* No permit is lost or made: not when a caller gives up while it waits, and not when
\* two wait for what the other has.
PermitsKept == \A k \in Kinds : free[k] + HeldOf(k, Caller) = Pool[k]

\* "Semaphore-based CPU/GPU/memory ResourceManager with RAII guards": who asks for no more
\* than there is waits only for what another holds.
WaitsForOthers == \A c \in Caller :
  phase[c] = "waiting" /\ (\E k \in Kinds : Lacks(c, k)) /\ free[NextKind(c)] = 0
    => \E d \in Caller \ {c} : held[d][NextKind(c)] > 0
=============================================================================
