------------------------------ MODULE Windows ------------------------------
(***************************************************************************)
(* Scheduling windows (domain/scheduling.py): whether a runner may start   *)
(* jobs at a moment of the week, and what happens to its batch when the    *)
(* window closes.  Time zones are left out: a moment is local time.        *)
(***************************************************************************)
EXTENDS Integers

CONSTANTS DayLength,    \* minutes of a day
          Schedule      \* allowed_windows a configuration may have, as sets of windows

ASSUME DayLengthAssumption == DayLength \in Nat \ {0}

Day == 0..6
Minute == 0..(DayLength - 1)
Moment == [day : Day, minute : Minute]
EndPolicy == {"end_now", "finish_job", "finish_batch"}

\* A window without days is one of all days; one with an empty list has none.
Window == [days : SUBSET Day, start : 0..DayLength, end : 0..DayLength,
           end_policy : EndPolicy]

ASSUME ScheduleAssumption == \A ws \in Schedule : ws \subseteq Window

\* "24:00" is the midnight a day begins with.
ParseHHMM(v) == IF v = DayLength THEN 0 ELSE v

\* Mutant: a week that begins without the day before.
PreviousDayOfWeek(d) == IF d = 0 THEN 0 ELSE d - 1
PreviousDay(d) == (d - 1) % 7

\* _window_matches: equal ends are the whole day, a window whose end comes
\* first runs over midnight and belongs to the day it starts on.
WindowMatches(w, t) ==
  LET start == ParseHHMM(w.start)
      end == ParseHHMM(w.end)
  IN \/ start = end /\ t.day \in w.days
     \/ start < end /\ t.day \in w.days /\ start <= t.minute /\ t.minute < end
     \/ end < start /\ start <= t.minute /\ t.day \in w.days
     \/ end < start /\ t.minute < end /\ PreviousDay(t.day) \in w.days

Priority == [p \in EndPolicy |-> CASE p = "end_now" -> 0 [] p = "finish_job" -> 1
                                   [] p = "finish_batch" -> 2]

EffectiveEndPolicy(ws) ==
  CHOOSE p \in {w.end_policy : w \in ws} : \A w \in ws : Priority[w.end_policy] <= Priority[p]

NoPolicy == "none"

\* evaluate_window_state: without windows a runner may always start.
EvaluateWindowState(ws, t) ==
  LET matching == {w \in ws : WindowMatches(w, t)}
  IN [active |-> ws = {} \/ matching # {},
      end_policy |-> IF matching = {} THEN NoPolicy ELSE EffectiveEndPolicy(matching)]

(***************************************************************************)
(* The schedule a window stands for: on each of its days it opens at its   *)
(* start and stays open for so many minutes, into the next day if need be. *)
(***************************************************************************)
Opening(w) == IF ParseHHMM(w.start) = ParseHHMM(w.end) THEN 0 ELSE ParseHHMM(w.start)

OpenFor(w) ==
  LET span == ParseHHMM(w.end) - ParseHHMM(w.start)
  IN IF span <= 0 THEN span + DayLength ELSE span

NextDay(d) == (d + 1) % 7

\* The moment n minutes after day d began, n below two days.
After(d, n) == IF n < DayLength THEN [day |-> d, minute |-> n]
                                ELSE [day |-> NextDay(d), minute |-> n - DayLength]

OpenMoments(w) ==
  {After(d, Opening(w) + k) : d \in w.days, k \in 0..(OpenFor(w) - 1)}

\* Of several open windows the one that lets a batch go on longest decides.
MostLenient(policies) == IF "finish_batch" \in policies THEN "finish_batch"
                         ELSE IF "finish_job" \in policies THEN "finish_job" ELSE "end_now"

ScheduleState(ws, t) ==
  LET open == {w \in ws : t \in OpenMoments(w)}
  IN [active |-> ws = {} \/ open # {},
      end_policy |-> IF open = {} THEN NoPolicy
                     ELSE MostLenient({w.end_policy : w \in open})]

\* At every moment of the week the scheduler finds a window open exactly when
\* the schedule says so, and its batches follow the most lenient open window
\* (claim_pending_batch, dispatch_batch and the service evaluate it).
WindowsFollowSchedule ==
  \A ws \in Schedule, t \in Moment : EvaluateWindowState(ws, t) = ScheduleState(ws, t)
=============================================================================
