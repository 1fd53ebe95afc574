------------------------ MODULE RefreshScheduleProofs ------------------------
(***************************************************************************)
(* The refresh schedule keeps a sound token alive, for every choice of the *)
(* loop's durations that satisfies ScheduleAssumption and every set of     *)
(* token lifetimes.                                                        *)
(***************************************************************************)
EXTENDS RefreshSchedule, TLAPS

\* The sleep run computes lies between minRefresh and maxRefresh, and ends a
\* margin before the expiry of a token that leaves room for one (main.go, run).
LEMMA RefreshInBounds ==
  ASSUME NEW life \in Nat
  PROVE  /\ RefreshIn(life) \in MinRefresh..MaxRefresh
         /\ life >= MinRefresh + ExpiryMargin =>
              RefreshIn(life) + ExpiryMargin <= life
BY ScheduleAssumption DEF RefreshIn

\* Every step keeps the types.
LEMMA NextTypes ==
  ASSUME TypeOK, [Next]_vars
  PROVE  TypeOK'
<1> USE ScheduleAssumption DEF TypeOK
<1>1. CASE \E life \in Lifetimes, told \in Told : Install(life, told)
  <2>1. PICK life \in Lifetimes, told \in Told : Install(life, told)
    BY <1>1
  <2>2. life \in Nat
    OBVIOUS
  <2>3. timer' = IF told THEN RefreshIn(life) ELSE MaxRefresh
    BY <2>1 DEF Install, GoToSleep
  <2>4. timer' \in 0..MaxRefresh
    BY <2>2, <2>3, RefreshInBounds
  <2> QED BY <2>1, <2>2, <2>4 DEF Install, GoToSleep
<1>2. CASE Retry           BY <1>2 DEF Retry, GoToSleep, Failed
<1>3. CASE Recovered       BY <1>3 DEF Recovered, GoToSleep, Failed
<1>4. CASE NotOwned        BY <1>4 DEF NotOwned, GoToSleep
<1>5. CASE Wake            BY <1>5 DEF Wake
<1>6. CASE Reload          BY <1>6 DEF Reload
<1>7. CASE Tick            BY <1>7 DEF Tick
<1>8. CASE UNCHANGED vars  BY <1>8 DEF vars
<1> QED BY <1>1, <1>2, <1>3, <1>4, <1>5, <1>6, <1>7, <1>8 DEF Next, Discovery

\* The timed loop keeps its types, and never sleeps longer than maxRefresh
\* (main.go, run).
THEOREM TypeCorrect == Spec => []TypeOK
<1>1. Init => TypeOK
  BY ScheduleAssumption DEF Init, TypeOK
<1>2. TypeOK /\ [Next]_vars => TypeOK'
  BY NextTypes
<1> QED BY <1>1, <1>2, PTL DEF Spec

\* What the model assumes of a discovery (main.go, run and its context): it is
\* over by its deadline.
WithinDeadline == spent <= DiscoverTimeout

\* The deadline is Tick's guard, so every step keeps it.
LEMMA DeadlineHolds == Spec => []WithinDeadline
<1>1. Init => WithinDeadline
  BY ScheduleAssumption DEF Init, WithinDeadline
<1>2. TypeOK /\ WithinDeadline /\ [Next]_vars => WithinDeadline'
  BY ScheduleAssumption
     DEF TypeOK, WithinDeadline, Next, Discovery, Install, Retry, Recovered,
         NotOwned, GoToSleep, Wake, Reload, Tick, vars
<1> QED BY <1>1, <1>2, TypeCorrect, PTL DEF Spec

\* Every step keeps the reserve.  An installation starts with the margin, which
\* covers a failing discovery, the pause and a second discovery; each unit of
\* time takes one from the token and one from what the stage still needs.
LEMMA NextReserve ==
  ASSUME TypeOK, WithinDeadline, SoundTokenReserve, [Next]_vars
  PROVE  SoundTokenReserve'
<1> USE ScheduleAssumption DEF TypeOK, WithinDeadline, SoundTokenReserve, Mild, Reserve
<1>1. CASE \E life \in Lifetimes, told \in Told : Install(life, told)
  <2>1. PICK life \in Lifetimes, told \in Told : Install(life, told)
    BY <1>1
  <2>2. CASE told /\ life >= MinRefresh + ExpiryMargin
    <3>1. timer' = RefreshIn(life) /\ left' = life /\ pc' = "sleep" /\ fails' = 0
      BY <2>1, <2>2 DEF Install, GoToSleep
    <3>2. timer' \in Nat /\ timer' + ExpiryMargin <= left'
      BY <2>2, <3>1, RefreshInBounds
    <3> QED BY <3>1, <3>2
  <2>3. CASE ~(told /\ life >= MinRefresh + ExpiryMargin)
    <3>1. token' = "poor"
      BY <2>1, <2>3 DEF Install
    <3> QED BY <3>1
  <2> QED BY <2>2, <2>3
<1>2. CASE Retry           BY <1>2 DEF Retry, GoToSleep, Failed
<1>3. CASE Recovered       BY <1>3 DEF Recovered, GoToSleep, Failed
<1>4. CASE NotOwned        BY <1>4 DEF NotOwned, GoToSleep
<1>5. CASE Wake            BY <1>5 DEF Wake
<1>6. CASE Reload          BY <1>6 DEF Reload
<1>7. CASE Tick            BY <1>7 DEF Tick
<1>8. CASE UNCHANGED vars  BY <1>8 DEF vars
<1> QED BY <1>1, <1>2, <1>3, <1>4, <1>5, <1>6, <1>7, <1>8 DEF Next, Discovery

\* At every stage of the loop a sound token has the life left that the way to
\* the next installation needs (main.go, run).
THEOREM ReserveKept == Spec => []SoundTokenReserve
<1>1. Init => SoundTokenReserve
  BY DEF Init, SoundTokenReserve
<1>2. TypeOK /\ WithinDeadline /\ SoundTokenReserve /\ [Next]_vars => SoundTokenReserve'
  BY NextReserve
<1> QED BY <1>1, <1>2, TypeCorrect, DeadlineHolds, PTL DEF Spec

\* A sound token has not lapsed while at most one discovery has failed, and none
\* has answered without the vault, since it was installed (main.go, run and
\* expiryMargin).
THEOREM SoundTokenSurvives == Spec => []SoundTokenAlive
<1>1. TypeOK /\ WithinDeadline /\ SoundTokenReserve => SoundTokenAlive
  BY ScheduleAssumption
     DEF TypeOK, WithinDeadline, SoundTokenReserve, Mild, Reserve, SoundTokenAlive
<1> QED BY <1>1, ReserveKept, DeadlineHolds, TypeCorrect, PTL
=============================================================================
