----------------------------- MODULE RateLimiter -----------------------------
(***************************************************************************)
(* The two rate limiters.  The one of the sign-in handlers keeps, for each *)
(* key, a count, the end of its window and the time of the last attempt    *)
(* that was admitted, from which a block is reckoned; the other, of the    *)
(* middleware, keeps a count and the end of its period.  Both are in       *)
(* memory, and both operations are synchronous.                            *)
(*                                                                         *)
(* Times are kept as the ticks that are left or that have passed, each     *)
(* only as far as it is told apart.                                        *)
(***************************************************************************)
EXTENDS Integers

CONSTANTS
  Key, Max, Window, Block,   \* of the sign-in handlers
  Caller, MaxOf, Period      \* of the middleware: public, authenticated, admin

(* The handlers construct theirs without a block duration, which is then    *)
(* twice the window.                                                        *)
ASSUME LimitsAssumption ==
  /\ Max \in Nat \ {0} /\ Window \in Nat \ {0} /\ Period \in Nat \ {0}
  /\ Block = 2 * Window
  /\ MaxOf \in [Caller -> Nat \ {0}]

VARIABLES
  store,     \* entries of the handlers' limiter
  records,   \* records of the middleware
  answer, reply,  \* history: the answers of each limiter since the last tick
  wait       \* history: how much is left of the retryAfter a key was told

limiterVars == <<store, records, answer, reply, wait>>

-----------------------------------------------------------------------------
Answer == {"none", "yes", "no"}
NoEntry == [count |-> 0, left |-> -1, since |-> 0]
NoRecord == [count |-> 0, left |-> -1]
Unadvised == -2

(* left = 0 is the very end of a window, -1 any time after it.              *)
LimiterTypeOK ==
  /\ store \in [Key -> [count : 0 .. Max, left : -1 .. Window, since : 0 .. Block]]
  /\ records \in [Caller -> [count : Nat, left : -1 .. Period]]
  /\ \A p \in Caller : records[p].count <= MaxOf[p] + 1
  /\ answer \in [Key -> Answer]
  /\ reply \in [Caller -> Answer]
  /\ wait \in [Key -> Unadvised .. Window]

LimiterInit ==
  /\ store = [k \in Key |-> NoEntry]
  /\ records = [p \in Caller |-> NoRecord]
  /\ answer = [k \in Key |-> "none"]
  /\ reply = [p \in Caller |-> "none"]
  /\ wait = [k \in Key |-> Unadvised]

-----------------------------------------------------------------------------
cleanup == [k \in Key |-> IF store[k].left < 0 THEN NoEntry ELSE store[k]]
Blocked(k) == store[k].left >= 0 /\ store[k].count >= Max /\ store[k].since < Block

(* Variant that would be a bug: the end of the block, not of the window.    *)
getTimeToReset_OfBlock(k) ==
  IF store[k].left < 0 THEN 0 ELSE Block - store[k].since
getTimeToReset(k) == IF store[k].left < 0 THEN 0 ELSE store[k].left

Answers(k, a) ==
  /\ answer' = [answer EXCEPT ![k] = a]
  /\ UNCHANGED <<records, reply>>

(* There is no entry, its window is over, or the block is.                  *)
Opens(k) ==
  /\ store[k].left < 0 \/ (store[k].count >= Max /\ store[k].since >= Block)
  /\ store' = [cleanup EXCEPT ![k] = [count |-> 1, left |-> Window, since |-> 0]]
  /\ wait' = [wait EXCEPT ![k] = Unadvised]
  /\ Answers(k, "yes")

Counts(k) ==
  /\ store[k].left >= 0 /\ store[k].count < Max
  /\ store' = [cleanup EXCEPT ![k] = [count |-> @.count + 1, left |-> @.left, since |-> 0]]
  /\ UNCHANGED wait
  /\ Answers(k, "yes")

(* Variant that would be a bug: a refused attempt is the last attempt, and  *)
(* starts the window again.                                                 *)
Refuses_Restarts(k) ==
  /\ Blocked(k)
  /\ store' = [cleanup EXCEPT ![k] = [@ EXCEPT !.left = Window, !.since = 0]]
  /\ wait' = [wait EXCEPT ![k] = Window]
  /\ Answers(k, "no")

(* The handler answers 429, with the time to the end of the window.         *)
Refuses(k) ==
  /\ Blocked(k)
  /\ store' = cleanup
  /\ wait' = [wait EXCEPT ![k] = getTimeToReset(k)]
  /\ Answers(k, "no")

attempt(k) == Opens(k) \/ Counts(k) \/ Refuses(k)

(* Variant that would be a bug: the request that reaches the limit is       *)
(* refused.                                                                 *)
isLimited_AtMax(p) ==
  LET r == records[p]
      n == IF r.left < 0 THEN 1 ELSE IF r.count > MaxOf[p] THEN r.count ELSE r.count + 1 IN
  /\ records' = [records EXCEPT ![p] =
       [count |-> n, left |-> IF r.left < 0 THEN Period ELSE r.left]]
  /\ reply' = [reply EXCEPT ![p] = IF r.left >= 0 /\ n >= MaxOf[p] THEN "no" ELSE "yes"]
  /\ UNCHANGED <<store, answer, wait>>

(* Refused requests are counted too; counts over the limit are all alike.   *)
isLimited(p) ==
  LET r == records[p]
      n == IF r.left < 0 THEN 1 ELSE IF r.count > MaxOf[p] THEN r.count ELSE r.count + 1 IN
  /\ records' = [records EXCEPT ![p] =
       [count |-> n, left |-> IF r.left < 0 THEN Period ELSE r.left]]
  /\ reply' = [reply EXCEPT ![p] = IF r.left >= 0 /\ n > MaxOf[p] THEN "no" ELSE "yes"]
  /\ UNCHANGED <<store, answer, wait>>

-----------------------------------------------------------------------------
Down(n) == IF n < 0 THEN n ELSE n - 1

Tick ==
  /\ store' = [k \in Key |->
       [store[k] EXCEPT !.left = Down(@),
                        !.since = IF store[k].left < 0 \/ @ = Block THEN @ ELSE @ + 1]]
  /\ records' = [p \in Caller |-> [records[p] EXCEPT !.left = Down(@)]]
  /\ answer' = [k \in Key |-> "none"]
  /\ reply' = [p \in Caller |-> "none"]
  /\ wait' = [k \in Key |-> Down(wait[k])]

RestartLimiters ==
  /\ store' = [k \in Key |-> NoEntry]
  /\ records' = [p \in Caller |-> NoRecord]
  /\ answer' = [k \in Key |-> "none"]
  /\ reply' = [p \in Caller |-> "none"]
  /\ wait' = [k \in Key |-> Unadvised]

LimiterNext ==
  \/ \E k \in Key : attempt(k)
  \/ \E p \in Caller : isLimited(p)
  \/ Tick
  \/ RestartLimiters

(* The only fairness: time passes.  Nothing is asked of clients or of the   *)
(* server.                                                                  *)
LimiterSpec == LimiterInit /\ [][LimiterNext]_limiterVars /\ WF_limiterVars(Tick)

-----------------------------------------------------------------------------
(* Both limiters are fixed windows: the block time of the first, although   *)
(* longer than its window, never outlasts it, and entries that have not     *)
(* been cleaned up make no difference; the second goes on counting what it  *)
(* refuses, but its period does not move.                                   *)
KeyMax == [k \in Key |-> Max]
KeyUsed == [k \in Key |-> IF store[k].left < 0 THEN 0 ELSE store[k].count]
KeyLeft == [k \in Key |-> IF store[k].left < 0 THEN 0 ELSE store[k].left]
Handlers == INSTANCE FixedWindow WITH Max <- KeyMax, used <- KeyUsed, left <- KeyLeft

CallerUsed ==
  [p \in Caller |-> IF records[p].left < 0 THEN 0
                    ELSE IF records[p].count > MaxOf[p] THEN MaxOf[p] ELSE records[p].count]
CallerLeft == [p \in Caller |-> IF records[p].left < 0 THEN 0 ELSE records[p].left]
Middleware == INSTANCE FixedWindow WITH
  Key <- Caller, Max <- MaxOf, Window <- Period,
  used <- CallerUsed, left <- CallerLeft, answer <- reply
ActAsFixedWindows == Handlers!Spec /\ Middleware!Spec

(* Nobody is shut out for good: whoever is refused is admitted again later, *)
(* even one that never stops trying.                                        *)
Limited(p) == records[p].left >= 0 /\ records[p].count >= MaxOf[p]
BlocksEnd ==
  /\ \A k \in Key : Blocked(k) ~> ~Blocked(k)
  /\ \A p \in Caller : Limited(p) ~> ~Limited(p)

(* The retryAfter in a 429 is right to the tick, whatever attempts follow:  *)
(* the key stays refused for that long, the last moment included, and not   *)
(* longer.                                                                  *)
AdviceIsKept ==
  \A k \in Key : wait[k] # Unadvised => (Blocked(k) <=> wait[k] >= 0)
=============================================================================
