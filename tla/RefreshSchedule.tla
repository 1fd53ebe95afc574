--------------------------- MODULE RefreshSchedule ---------------------------
(***************************************************************************)
(* configManager.run with its clock: how long it sleeps after each outcome *)
(* of a discovery, against the remaining life of the attestation token the *)
(* installed session carries.  ConfigManager models the same loop without  *)
(* time; here the configs are left out and the durations are kept.         *)
(*                                                                         *)
(* Clock values are relative: what is left of the timer, of the token, of  *)
(* the time a discovery may take.  One Tick is one unit of time.           *)
(***************************************************************************)
EXTENDS Integers

CONSTANTS
  MaxRefresh,       \* 30 minutes
  MinRefresh,       \* 1 minute
  RetryBackoff,     \* 30 seconds
  ExpiryMargin,     \* 2 minutes
  DiscoverTimeout,  \* 45 seconds, the context deadline of one discovery; the
                    \* identity mint in it ignores the context and is taken to
                    \* return in time
  Lifetimes,        \* remaining lives the control plane may vend a token with
  Told,             \* whether the control plane may give (TRUE) or omit the expiry
  MayFail           \* discoveries may fail, panic or disown the vault

\* The margin covers a discovery that fails, the pause and a second discovery.
ASSUME ScheduleAssumption ==
  /\ MaxRefresh \in Nat /\ MinRefresh \in Nat /\ RetryBackoff \in Nat
  /\ ExpiryMargin \in Nat /\ DiscoverTimeout \in Nat
  /\ MinRefresh <= MaxRefresh /\ RetryBackoff <= MaxRefresh
  /\ DiscoverTimeout + RetryBackoff + DiscoverTimeout <= ExpiryMargin
  /\ Lifetimes \subseteq Nat
  /\ Told \subseteq BOOLEAN
  /\ MayFail \in BOOLEAN

VARIABLES
  pc,     \* "discover" or "sleep"
  spent,  \* time this discovery has taken
  timer,  \* what is left of the sleep
  left,   \* what is left of the installed token's life; -1 once it has lapsed
  token,  \* history: "none", "sound" or "poor", see Install
  fails,  \* history: discoveries that failed since the last install (2 = more)
  listed  \* history: "yes", or "no" once a discovery has answered without the
          \* vault since the last install

vars == <<pc, spent, timer, left, token, fails, listed>>

Init ==
  /\ pc = "discover" /\ spent = 0 /\ timer = 0
  /\ left = -1 /\ token = "none" /\ fails = 0
  /\ listed = "yes"

\* A mutated RefreshIn: the margin is not subtracted.
RefreshInNoMargin(life) ==
  LET next == IF life < MaxRefresh THEN life ELSE MaxRefresh
  IN  IF next < MinRefresh THEN MinRefresh ELSE next

\* A mutated RefreshIn: the sleep is not capped.
RefreshInUncapped(life) ==
  IF life - ExpiryMargin < MinRefresh THEN MinRefresh ELSE life - ExpiryMargin

\* The sleep after an installation, from the life the token is known to have:
\* until a margin before its expiry, within [MinRefresh, MaxRefresh].
RefreshIn(life) ==
  LET until == life - ExpiryMargin
      next  == IF until < MaxRefresh THEN until ELSE MaxRefresh
  IN  IF next < MinRefresh THEN MinRefresh ELSE next

GoToSleep(d) ==
  /\ pc = "discover"
  /\ pc' = "sleep" /\ timer' = d /\ spent' = 0

Failed == fails' = IF fails = 0 THEN 1 ELSE 2

\* Discover answered: a session with a fresh token is installed.  The token is
\* sound when its expiry was given and leaves room for the shortest sleep and
\* the margin; otherwise the sleep is not derived from its life.
Install(life, told) ==
  /\ GoToSleep(IF told THEN RefreshIn(life) ELSE MaxRefresh)
  /\ left' = life
  /\ token' = IF told /\ life >= MinRefresh + ExpiryMargin THEN "sound" ELSE "poor"
  /\ fails' = 0 /\ listed' = "yes"

\* A mutated Retry: the loop pauses for the regular interval after an error.
RetryLate ==
  /\ MayFail
  /\ GoToSleep(MaxRefresh)
  /\ Failed
  /\ UNCHANGED <<left, token, listed>>

\* Discover returned an error: retried soon, with the old session in place.
Retry ==
  /\ MayFail
  /\ GoToSleep(RetryBackoff)
  /\ Failed
  /\ UNCHANGED <<left, token, listed>>

\* The iteration panicked: the deferred recover makes the function literal
\* return its zero value, so the loop does not pause at all.
Recovered ==
  /\ MayFail
  /\ GoToSleep(0)
  /\ Failed
  /\ UNCHANGED <<left, token, listed>>

\* The vault is not listed for the owner: the old session stays in place and
\* the loop sleeps as long as it can.  The discovery has not failed, and
\* whatever margin the session's token had is slept through.
NotOwned ==
  /\ MayFail
  /\ GoToSleep(MaxRefresh)
  /\ listed' = "no"
  /\ UNCHANGED <<left, token, fails>>

\* A mutated Wake: the select does not listen to the timer.
WakeNever ==
  /\ FALSE
  /\ pc' = "discover" /\ spent' = 0
  /\ UNCHANGED <<timer, left, token, fails, listed>>

\* The timer fires, or a /configure puts a token in the reload channel.
Wake ==
  /\ pc = "sleep" /\ timer = 0
  /\ pc' = "discover" /\ spent' = 0
  /\ UNCHANGED <<timer, left, token, fails, listed>>

Reload ==
  /\ pc = "sleep"
  /\ pc' = "discover" /\ spent' = 0 /\ timer' = 0
  /\ UNCHANGED <<left, token, fails, listed>>

\* One unit of time passes.  A timer that has run down fires at once, so time
\* cannot pass it; nor can it pass the deadline of a discovery, which is the
\* assumption stated at DiscoverTimeout.
Tick ==
  /\ \/ pc = "sleep" /\ timer > 0 /\ timer' = timer - 1 /\ UNCHANGED spent
     \/ pc = "discover" /\ spent < DiscoverTimeout /\ spent' = spent + 1
        /\ UNCHANGED timer
  /\ left' = IF left >= 0 THEN left - 1 ELSE left
  /\ UNCHANGED <<pc, token, fails, listed>>

Discovery ==
  \/ \E life \in Lifetimes, told \in Told : Install(life, told)
  \/ Retry \/ Recovered \/ NotOwned

Next == Discovery \/ Wake \/ Reload \/ Tick

Spec == Init /\ [][Next]_vars

\* Time passes, timers fire, a discovery ends, and one that is repeated for
\* ever is now and then answered with a token that is not about to expire.
FairSpec ==
  /\ Spec
  /\ WF_vars(Tick) /\ WF_vars(Wake) /\ WF_vars(Discovery)
  /\ SF_vars(\E life \in Lifetimes \ {0}, told \in Told : Install(life, told))

-----------------------------------------------------------------------------
\* The types, and the cap of run: no sleep is longer than maxRefresh, so what
\* the gateway knows of its constellation is never older than that by its will.
TypeOK ==
  /\ pc \in {"discover", "sleep"}
  /\ spent \in Nat
  /\ timer \in 0..MaxRefresh
  /\ left \in Int /\ left >= -1
  /\ token \in {"none", "sound", "poor"}
  /\ fails \in 0..2
  /\ listed \in {"yes", "no"}

\* At most one discovery has failed and none has disowned the vault since the
\* session was installed.  One answer without the vault is enough to lose the
\* token: the loop then sleeps MaxRefresh, whatever the token has left.
Mild == fails < 2 /\ listed = "yes"

\* The refresh schedule of run keeps a sound token alive while the failures are
\* Mild, wherever in the sleep, the failing discovery, the pause or the second
\* discovery the gateway is, and however often a reload cuts the sleep short.
SoundTokenAlive ==
  (token = "sound" /\ Mild) => left >= 0

\* The inductive form: how much of the token's life each stage still needs.
Reserve ==
  LET twice == DiscoverTimeout + RetryBackoff + DiscoverTimeout IN
  CASE pc = "sleep"    /\ fails = 0 -> timer + twice
    [] pc = "sleep"    /\ fails = 1 -> timer + DiscoverTimeout
    [] pc = "discover" /\ fails = 0 -> twice - spent
    [] pc = "discover" /\ fails = 1 -> DiscoverTimeout - spent
    [] OTHER                        -> 0

\* At each of those stages the token has the life left that the way to the next
\* installation by run needs, again while the failures are Mild.
SoundTokenReserve ==
  (token = "sound" /\ Mild) => left >= Reserve

\* An installed token never lapses while every discovery succeeds
\* (internal/platform/client.go, AttTokenExpiresAt: the gateway re-discovers
\* before the expiry, "so the short-lived, possibly near-expiry vended token
\* never lapses").
TokenNeverLapses == token # "none" => left >= 0

\* A lapse is not for ever: the loop of run always comes back to a discovery
\* that installs a token with some life left.
LapseHeals == []<>(left > 0)
=============================================================================
