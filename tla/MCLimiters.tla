----------------------------- MODULE MCLimiters -----------------------------
(***************************************************************************)
(* Both limiters for TLC. They share nothing, so that a behaviour of both  *)
(* is a pair of behaviours, and it is enough to let one of them run while  *)
(* the other stays where it starts.                                        *)
(***************************************************************************)
EXTENDS RateLimiter, TLC

CONSTANTS
  ConnKeys, RequestKeys, Conns, Burst, Rate, RequestBurst, RequestRate, MaxConn,
  Violations, RequestViolations, MaxTable, SishBlock, SishTime

VARIABLES
  side,   \* the limiter that runs
  sishClock, sishEntries, conn, sishRequest, sishUntil, sishCreated, sishGranted

Sish == INSTANCE ConnectionLimiter WITH
  clock <- sishClock, entries <- sishEntries, request <- sishRequest,
  until <- sishUntil, created <- sishCreated, granted <- sishGranted,
  Block <- SishBlock, MaxTime <- SishTime

ASSUME SishAssumption == Sish!ConnectionLimiterAssumption

sishVars ==
  <<sishClock, sishEntries, conn, sishRequest, sishUntil, sishCreated, sishGranted>>

LimitersInit == side \in {"web", "sish"} /\ Init /\ Sish!Init

LimitersNext ==
  /\ UNCHANGED side
  /\ \/ side = "web" /\ Next /\ UNCHANGED sishVars
     \/ side = "sish" /\ Sish!Next /\ UNCHANGED vars

LimitersSpec == LimitersInit /\ [][LimitersNext]_<<side, vars, sishVars>>

Symmetry ==
  Permutations(Keys) \cup Permutations(Requests) \cup Permutations(ConnKeys)
    \cup Permutations(Conns)

\* The state of both limiters is well formed.
LimitersTypeOK == TypeOK /\ Sish!TypeOK

\* No client of either limiter gets more than its burst and what was refilled.
LimitersRateHolds == RateHolds /\ Sish!RateHolds

\* A block of either limiter stands until it ends.
LimitersBlockStands == BlockStands /\ Sish!BlockStands

\* The connection counts of sish are those of the open connections.
ConnectionsCounted == Sish!ConnectionsCounted
=============================================================================
