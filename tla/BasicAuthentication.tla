------------------------- MODULE BasicAuthentication -------------------------
(* src/authentication/BasicAuthenticationStrategy.h: tokens that expire, a    *)
(* CachedFileList of the revoked ones, clients that log in, check and log     *)
(* out, and the thread that every hour drops the tokens that no longer verify *)
(* and compacts the file.  A token is the second in which it was issued:      *)
(* authenticate signs nothing else that varies.                               *)
EXTENDS CachedFileList, FiniteSets

CONSTANTS
  Clients,     \* threads that call the strategy
  Garbage,     \* strings that are no token of this strategy
  NoToken,     \* no string in hand
  Expiration,  \* AUTH_BASIC_EXPIRATION
  MaxTime      \* bound on the clock

ASSUME AuthAssumption ==
  /\ NoToken \notin Tokens /\ Garbage \subseteq Tokens
  /\ (Tokens \ Garbage) \subseteq Nat
  /\ Expiration \in Nat /\ MaxTime \in Nat

VARIABLES
  clock,     \* system_clock, in seconds: it does not step back
  cpc,       \* each client: "idle" or "verify", between find and verify
  ctok,      \* the token it checks
  answer,    \* its last answer: authenticated or not
  tpc,       \* where compactThreadFunction is
  todo,      \* what is left of allTokens
  victim,    \* the token that has just failed to verify
  stop,      \* stopThread
  revoked,   \* history: the tokens that removeAuthentication has put on the list
             \* (a file that does not open refuses them, and it says nothing)
  late,      \* history: the token a client checks was revoked when it began
  lost       \* history: a crash has hit the window of compactFile, or has taken
             \* what a failed read, write or rename had left in memory only, or a
             \* start has not read the file to its end

clientVars == <<cpc, ctok, answer, late>>
threadVars == <<tpc, todo, victim>>
authVars == <<clock, clientVars, threadVars, stop, revoked, lost>>
vars == <<listVars, authVars>>

(* Between the return of the constructor and the call of the destructor.      *)
Usable == stage # "down" /\ ~stop

(* jwt::verify: signature and issuer, then not before and expires at.         *)
Verifies(t) == t \notin Garbage /\ t <= clock /\ clock <= t + Expiration

(* What a client may hold: a token that authenticate has returned, or a       *)
(* string that is none.                                                       *)
Held == Garbage \union {t \in Tokens \ Garbage : t <= clock}

AuthInit ==
  /\ Init
  /\ clock = 0
  /\ cpc = [c \in Clients |-> "idle"] /\ ctok = [c \in Clients |-> NoToken]
  /\ answer = [c \in Clients |-> FALSE] /\ late = [c \in Clients |-> FALSE]
  /\ tpc = "ended" /\ todo = {} /\ victim = NoToken
  /\ stop = FALSE /\ revoked = {} /\ lost = FALSE

Tick ==
  /\ clock < MaxTime
  /\ clock' = clock + 1
  /\ UNCHANGED <<listVars, clientVars, threadVars, stop, revoked, lost>>

-----------------------------------------------------------------------------
(* isAuthenticated up to the lookup.  It takes the mutex shared, so it waits  *)
(* for compactFile and for nothing else.                                      *)
FindMutantVerifyOnly(c, t) ==
  /\ Usable /\ stage = "idle" /\ cpc[c] = "idle" /\ t \in Held
  /\ late' = [late EXCEPT ![c] = t \in revoked]
  /\ cpc' = [cpc EXCEPT ![c] = "verify"] /\ ctok' = [ctok EXCEPT ![c] = t]
  /\ UNCHANGED <<listVars, clock, answer, threadVars, stop, revoked, lost>>

Find(c, t) ==
  /\ Usable /\ stage = "idle" /\ cpc[c] = "idle" /\ t \in Held
  /\ late' = [late EXCEPT ![c] = t \in revoked]
  /\ IF t \in cache
     THEN answer' = [answer EXCEPT ![c] = FALSE] /\ UNCHANGED <<cpc, ctok>>
     ELSE /\ cpc' = [cpc EXCEPT ![c] = "verify"] /\ ctok' = [ctok EXCEPT ![c] = t]
          /\ UNCHANGED answer
  /\ UNCHANGED <<listVars, clock, threadVars, stop, revoked, lost>>

(* The rest of isAuthenticated, with no lock held.                            *)
Verify(c) ==
  /\ Usable /\ cpc[c] = "verify"
  /\ answer' = [answer EXCEPT ![c] = Verifies(ctok[c])]
  /\ cpc' = [cpc EXCEPT ![c] = "idle"] /\ ctok' = [ctok EXCEPT ![c] = NoToken]
  /\ UNCHANGED <<listVars, clock, threadVars, stop, late, revoked, lost>>

(* removeAuthentication.                                                      *)
Logout(t) ==
  /\ Usable /\ t \in Held
  /\ Add(t)
  /\ revoked' = revoked \union ({t} \intersect cache')
  /\ UNCHANGED <<clock, clientVars, threadVars, stop, lost>>

-----------------------------------------------------------------------------
(* compactThreadFunction: the loop condition.                                 *)
ThreadTopMutantNoStop ==
  /\ stage # "down" /\ tpc = "top"
  /\ tpc' = "sleep"
  /\ UNCHANGED <<listVars, clock, clientVars, todo, victim, stop, revoked, lost>>

ThreadTop ==
  /\ stage # "down" /\ tpc = "top"
  /\ tpc' = IF stop THEN "ended" ELSE "sleep"
  /\ UNCHANGED <<listVars, clock, clientVars, todo, victim, stop, revoked, lost>>

(* The hour is over; getAll.                                                  *)
ThreadWakes ==
  /\ stage = "idle" /\ tpc = "sleep"
  /\ tpc' = "prune" /\ todo' = cache
  /\ UNCHANGED <<listVars, clock, clientVars, victim, stop, revoked, lost>>

(* One turn of the loop over allTokens: decode and verify.                    *)
PruneCheckMutantAtExpiry(t) ==
  /\ stage # "down" /\ tpc = "prune" /\ t \in todo
  /\ todo' = todo \ {t}
  /\ IF Verifies(t) /\ clock < t + Expiration THEN UNCHANGED <<tpc, victim>>
     ELSE tpc' = "erase" /\ victim' = t
  /\ UNCHANGED <<listVars, clock, clientVars, stop, revoked, lost>>

PruneCheckMutantGarbageOnly(t) ==
  /\ stage # "down" /\ tpc = "prune" /\ t \in todo
  /\ todo' = todo \ {t}
  /\ IF t \notin Garbage THEN UNCHANGED <<tpc, victim>>
     ELSE tpc' = "erase" /\ victim' = t
  /\ UNCHANGED <<listVars, clock, clientVars, stop, revoked, lost>>

PruneCheck(t) ==
  /\ stage # "down" /\ tpc = "prune" /\ t \in todo
  /\ todo' = todo \ {t}
  /\ IF Verifies(t) THEN UNCHANGED <<tpc, victim>>
     ELSE tpc' = "erase" /\ victim' = t
  /\ UNCHANGED <<listVars, clock, clientVars, stop, revoked, lost>>

(* The handler of the exception: remove.                                      *)
PruneErase ==
  /\ stage # "down" /\ tpc = "erase"
  /\ Remove(victim)
  /\ tpc' = "prune" /\ victim' = NoToken
  /\ UNCHANGED <<clock, clientVars, todo, stop, revoked, lost>>

(* compactFile, and back to the loop condition when it returns.               *)
ThreadCompacts ==
  /\ tpc \in {"prune", "compact"} /\ todo = {}
  /\ IF tpc = "prune" THEN CompactBegin
     ELSE CompactLine \/ CompactUnlink \/ CompactRename
  /\ tpc' = IF stage' = "idle" THEN "top" ELSE "compact"
  /\ UNCHANGED <<clock, clientVars, todo, victim, stop, revoked, lost>>

-----------------------------------------------------------------------------
(* The constructor.                                                           *)
Construct ==
  /\ Start
  /\ tpc' = "top" /\ stop' = FALSE
  /\ lost' = (lost \/ unread')
  /\ UNCHANGED <<clock, clientVars, todo, victim, revoked>>

(* The destructor, called when no client is inside a method, and its return   *)
(* after the join.                                                            *)
Destroy ==
  /\ Usable /\ \A c \in Clients : cpc[c] = "idle"
  /\ stop' = TRUE
  /\ UNCHANGED <<listVars, clock, clientVars, threadVars, revoked, lost>>

DestroyReturns ==
  /\ stop /\ stage = "idle" /\ tpc = "ended"
  /\ Crash
  /\ lost' = (lost \/ damaged)
  /\ UNCHANGED <<clock, clientVars, threadVars, stop, revoked>>

(* The process dies.  The window is the one between remove and rename.        *)
ProcessDies ==
  /\ Crash
  /\ lost' = (lost \/ damaged \/ (stage = "rename" /\ ~exists))
  /\ cpc' = [c \in Clients |-> "idle"] /\ ctok' = [c \in Clients |-> NoToken]
  /\ answer' = [c \in Clients |-> FALSE] /\ late' = [c \in Clients |-> FALSE]
  /\ tpc' = "ended" /\ todo' = {} /\ victim' = NoToken /\ stop' = FALSE
  /\ UNCHANGED <<clock, revoked>>

-----------------------------------------------------------------------------
ThreadStep ==
  \/ ThreadTop \/ ThreadWakes \/ PruneErase \/ ThreadCompacts
  \/ \E t \in Tokens : PruneCheck(t)

AuthNext ==
  \/ Tick \/ Construct \/ Destroy \/ DestroyReturns \/ ProcessDies
  \/ \E c \in Clients, t \in Tokens : Find(c, t)
  \/ \E c \in Clients : Verify(c)
  \/ \E t \in Tokens : Logout(t)
  \/ ThreadStep

AuthSpec == AuthInit /\ [][AuthNext]_vars

(* The compaction thread runs and its sleep ends.                             *)
AuthFairness == WF_vars(ThreadStep) /\ WF_vars(DestroyReturns)

AuthFairSpec == AuthSpec /\ AuthFairness
-----------------------------------------------------------------------------
(* isAuthenticated looks the token up under one lock and verifies it with no  *)
(* lock, while the compaction thread drops tokens from the list and restarts  *)
(* rebuild it.  Still a check that begins after removeAuthentication has      *)
(* put it on the list never answers yes, unless a crash or a start that could *)
(* not read the file has lost the list since.  A mark that fails does not:    *)
(* what it leaves in the file is more than the list, never less.              *)
RevokedRejected == \A c \in Clients : (answer[c] /\ late[c] /\ cpc[c] = "idle") => lost

(* A revoked token is in the list for as long as it would verify, in memory   *)
(* while the process is up and in the file while it is down: what the thread  *)
(* drops, on a snapshot and a clock that are old by then, can no longer be    *)
(* accepted, before a restart or after.                                       *)
KeptWhileValid ==
  ~lost => \A t \in revoked :
             Verifies(t) => t \in IF stage = "down" THEN LiveTokens(file) ELSE cache

(* The list does not grow for ever: a string that no longer verifies leaves   *)
(* it, as long as the process stays up.  Without a file, which a rename that  *)
(* failed leaves behind, it stays until a later logout makes one.             *)
DeadTokensLeave ==
  \A t \in Tokens :
    (t \in cache /\ ~Verifies(t))
      ~> (t \notin cache \/ stop \/ (stage = "idle" /\ ~exists))

(* The destructor returns, after the sleep and at most one more pass.         *)
DestructorReturns == stop ~> (stage = "down")
=============================================================================
