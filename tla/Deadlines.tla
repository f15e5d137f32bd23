----------------------------- MODULE Deadlines -----------------------------
(***************************************************************************)
(* The clocks of signatures and access tokens.  Both programs that look at *)
(* them truncate to seconds what the clock reads in finer ticks: the       *)
(* sender its timestamp, verify_webhook_signature its own time, and        *)
(* create_access_token the times of issue and expiry, each on its own.     *)
(***************************************************************************)
EXTENDS Integers, TLAPS

\* datetime counts microseconds.
Ticks == 1000000

\* int(...) of a time since 1970.
Seconds(time) == time \div Ticks

-----------------------------------------------------------------------------
(* verify_webhook_signature *)

Distance(a, b) == IF a >= b THEN a - b ELSE b - a

\* WebhookTimestampOutsideToleranceError is not raised.
WithinTolerance(timestamp, now, tolerance) ==
    Distance(Seconds(now), timestamp) <= tolerance

\* verify_webhook_signature never refuses a delivery for its timestamp as long as the time
\* it was under way, and what the clocks differ by, is no more than the tolerance:
\* truncating both times takes nothing away from the sender.
THEOREM InTimeIsAccepted ==
    ASSUME NEW sent \in Nat, NEW now \in Nat, NEW tolerance \in Nat,
           now <= sent + tolerance * Ticks, sent <= now + tolerance * Ticks
    PROVE  WithinTolerance(Seconds(sent), now, tolerance)
<1>1. Seconds(now) \in Int /\ Seconds(sent) \in Int
  BY DEF Seconds, Ticks
<1>2. Seconds(now) <= Seconds(sent) + tolerance
  BY DEF Seconds, Ticks
<1>3. Seconds(sent) <= Seconds(now) + tolerance
  BY DEF Seconds, Ticks
<1> QED
  BY <1>1, <1>2, <1>3 DEF WithinTolerance, Distance

\* verify_webhook_signature refuses a recorded delivery one second after the
\* tolerance at the latest, and one dated that far ahead: truncating gives away less
\* than a second.
THEOREM OutOfTimeIsRefused ==
    ASSUME NEW sent \in Nat, NEW now \in Nat, NEW tolerance \in Nat,
           \/ now >= sent + (tolerance + 1) * Ticks
           \/ sent >= now + (tolerance + 1) * Ticks
    PROVE  ~WithinTolerance(Seconds(sent), now, tolerance)
<1>1. Seconds(now) \in Int /\ Seconds(sent) \in Int
  BY DEF Seconds, Ticks
<1>2. CASE now >= sent + (tolerance + 1) * Ticks
  <2>1. Seconds(now) >= Seconds(sent) + tolerance + 1
    BY <1>2 DEF Seconds, Ticks
  <2> QED
    BY <1>1, <2>1 DEF WithinTolerance, Distance
<1>3. CASE sent >= now + (tolerance + 1) * Ticks
  <2>1. Seconds(sent) >= Seconds(now) + tolerance + 1
    BY <1>3 DEF Seconds, Ticks
  <2> QED
    BY <1>1, <2>1 DEF WithinTolerance, Distance
<1> QED
  BY <1>2, <1>3

-----------------------------------------------------------------------------
(* create_access_token and decode_access_token *)

IssuedClaim(issued) == Seconds(issued)
ExpiryClaim(issued, lifetime) == Seconds(issued + lifetime)

\* jwt.decode compares the claims with the clock as it is, not truncated.
Accepted(issued, lifetime, now) ==
    /\ IssuedClaim(issued) * Ticks <= now
    /\ now < ExpiryClaim(issued, lifetime) * Ticks

\* decode_access_token accepts a token at once, as no truncation dates it into the
\* future, and until less than a second before its lifetime ends.
THEOREM TokenIsAcceptedInTime ==
    ASSUME NEW issued \in Nat, NEW lifetime \in Nat, NEW now \in Nat,
           issued <= now, now + Ticks <= issued + lifetime
    PROVE  Accepted(issued, lifetime, now)
<1>1. Seconds(issued) * Ticks <= issued
  BY DEF Seconds, Ticks
<1>2. issued + lifetime < Seconds(issued + lifetime) * Ticks + Ticks
  BY DEF Seconds, Ticks
<1>3. Seconds(issued) \in Int /\ Seconds(issued + lifetime) \in Int
  BY DEF Seconds, Ticks
<1> QED
  BY <1>1, <1>2, <1>3 DEF Accepted, IssuedClaim, ExpiryClaim, Ticks

\* decode_access_token accepts no token whose lifetime has ended, however the times of
\* issue and expiry were truncated.
THEOREM TokenNeverOutlives ==
    ASSUME NEW issued \in Nat, NEW lifetime \in Nat, NEW now \in Nat,
           issued + lifetime <= now
    PROVE  ~Accepted(issued, lifetime, now)
<1>1. Seconds(issued + lifetime) * Ticks <= issued + lifetime
  BY DEF Seconds, Ticks
<1>2. Seconds(issued + lifetime) \in Int
  BY DEF Seconds, Ticks
<1> QED
  BY <1>1, <1>2 DEF Accepted, ExpiryClaim, Ticks

=============================================================================
