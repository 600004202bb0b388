---------------------------- MODULE RequestLimits ----------------------------
(***************************************************************************)
(* What a request passes before its route runs: the CSRF check, the rate   *)
(* limit, the limit of the declared length, the body as it arrives, and    *)
(* then the dependencies of the route (the gate of the plugin management,  *)
(* the login, the role).  The body is read before the dependencies run.    *)
(*                                                                         *)
(* The middleware up to the body shares nothing but the hits of the        *)
(* limiter and does not wait: it is one step.                              *)
(*                                                                         *)
(* The limiter keeps a list of times and never looks at their order: here  *)
(* the list is a set of hits, with a number that tells hits of one time    *)
(* apart.                                                                  *)
(***************************************************************************)
EXTENDS Naturals, FiniteSets

CONSTANTS
    Pending,      \* bound: requests whose body is being read
    Clients,      \* addresses of clients
    LoginLimit, PluginsLimit,   \* settings.rate_limit_*_per_minute
    Window,       \* the window of every bucket
    LoginBody, DefaultBody, UploadBody,   \* limits of a body, in units of data
    MaxBody,      \* bound: the units a client sends
    MaxTicks,     \* bound: the monotonic clock
    MaxHits       \* bound: requests ever let through by the limiter

ASSUME LimitsAssumption ==
    /\ {LoginLimit, PluginsLimit, Window, LoginBody, DefaultBody, UploadBody} \subseteq Nat \ {0}
    /\ {MaxBody, MaxTicks, MaxHits} \subseteq Nat

Buckets == {"login", "plugins"}
Paths == {"login", "install", "upload", "uninstall", "events"}

\* _rate_limit_spec and the limits of RateLimitMiddleware; the window is the same for all.
BucketOf(path) ==
    IF path = "login" THEN "login" ELSE IF path \in {"install", "upload"} THEN "plugins" ELSE "none"
RateLimit(bucket) == IF bucket = "login" THEN LoginLimit ELSE PluginsLimit

\* RequestBodyLimitMiddleware._limit
BodyLimit(path) ==
    IF path = "login" THEN LoginBody ELSE IF path = "upload" THEN UploadBody ELSE DefaultBody

Unsafe(path) == path # "events"
WithBody(path) == path \in {"login", "install", "upload"}
Managing(path) == path \in {"install", "upload", "uninstall"}
RoleNeeded(path) == IF path = "login" THEN 0 ELSE IF path = "events" THEN 1 ELSE 2

VARIABLES
    authOn,       \* settings.auth_enabled
    managed,      \* whether the plugin management is enabled
    ticks,        \* time.monotonic()
    hits,         \* InMemoryRateLimiter._hits, by bucket and client
    pending,      \* requests past the middleware
    admitted,     \* ghost: the hits of all requests the limiter let through
    early         \* ghost: the limiter refused a request it had room for

limitsVars == <<authOn, managed, ticks, hits, pending, admitted, early>>

NoRequest == [stage |-> "idle"]

LimitsInit ==
    /\ authOn \in BOOLEAN /\ managed \in BOOLEAN
    /\ ticks = 0
    /\ hits = [b \in Buckets |-> [k \in Clients |-> {}]]
    /\ admitted = hits
    /\ pending = [c \in Pending |-> NoRequest]
    /\ early = FALSE

-----------------------------------------------------------------------------
(* Mutant: a hit counts until its window has ended, and a moment longer.    *)
Recent_Longer(list) == {h \in list : ticks - h.at <= Window}
\* The hits that still count.
Recent(list) == {h \in list : ticks - h.at < Window}

\* allow: the hits are pruned in any case, and one that is refused is not counted.
Allow(b, k) ==
    LET recent == Recent(hits[b][k])
        room == Cardinality(recent) < RateLimit(b)
        hit == [at |-> ticks, number |-> Cardinality(admitted[b][k]) + 1]
    IN /\ hits' = [hits EXCEPT ![b][k] = IF room THEN recent \cup {hit} ELSE recent]
       /\ admitted' = IF room THEN [admitted EXCEPT ![b][k] = @ \cup {hit}] ELSE admitted

RoomFor(b, k) ==
    Cardinality({h \in admitted[b][k] : ticks < h.at + Window}) < RateLimit(b)

LetThrough ==
    Cardinality({w \in Buckets \X Clients \X (1..MaxHits) : w[3] <= Cardinality(admitted[w[1]][w[2]])})

\* CsrfMiddleware._violation: the header, and an origin of ours if there is one.
Genuine(marked, origin) == marked /\ origin \in {"none", "ours"}

\* A request arrives.  A declared length is compared for every method, and a body
\* as it arrives for the unsafe ones only.
Arrive(c, k, path, genuine, length, declared, role) ==
    LET b == BucketOf(path)
        taken == [stage |-> "reading", path |-> path, genuine |-> genuine, role |-> role,
                  left |-> length, handed |-> 0]
        accepted == ~ (declared /\ length > BodyLimit(path))
    IN /\ pending[c] = NoRequest
       /\ UNCHANGED <<authOn, managed, ticks>>
       /\ IF authOn /\ Unsafe(path) /\ ~ genuine
          THEN UNCHANGED <<hits, pending, admitted, early>>
          ELSE IF b = "none"
          THEN /\ pending' = [pending EXCEPT ![c] = IF accepted THEN taken ELSE NoRequest]
               /\ UNCHANGED <<hits, admitted, early>>
          ELSE /\ LetThrough < MaxHits
               /\ Allow(b, k)
               /\ early' = (early \/ (RoomFor(b, k) /\ admitted' = admitted))
               /\ pending' = [pending EXCEPT ![c] =
                                 IF accepted /\ admitted' # admitted THEN taken ELSE NoRequest]

\* limited_receive: whether n more units may be handed on.
Fits(r, n) == r.handed + n <= BodyLimit(r.path)

\* limited_receive: units of the body go to the parser, or it is given up (413).
Receive(c, n) ==
    LET r == pending[c]
    IN /\ r.stage = "reading" /\ WithBody(r.path)
       /\ n \in 1..r.left
       /\ pending' = [pending EXCEPT ![c] =
             IF Fits(r, n) THEN [r EXCEPT !.handed = @ + n, !.left = @ - n] ELSE NoRequest]
       /\ UNCHANGED <<authOn, managed, ticks, hits, admitted, early>>

\* The dependencies, in order: 404, then 401 or 409, then 403.
Admits(r) ==
    /\ Managing(r.path) => managed
    /\ authOn => r.role >= RoleNeeded(r.path)

\* The body is complete, or the route has none: the dependencies, then the route.
Depend(c) ==
    LET r == pending[c]
    IN /\ r.stage = "reading" /\ (WithBody(r.path) => r.left = 0)
       /\ pending' = [pending EXCEPT ![c] = IF Admits(r) THEN [r EXCEPT !.stage = "route"] ELSE NoRequest]
       /\ UNCHANGED <<authOn, managed, ticks, hits, admitted, early>>

\* The route ends, or the client goes away.
Finish(c) ==
    /\ pending[c].stage \in {"reading", "route"}
    /\ pending' = [pending EXCEPT ![c] = NoRequest]
    /\ UNCHANGED <<authOn, managed, ticks, hits, admitted, early>>

TickOn ==
    /\ ticks < MaxTicks
    /\ ticks' = ticks + 1
    /\ UNCHANGED <<authOn, managed, hits, pending, admitted, early>>

LimitsNext ==
    \/ TickOn
    \/ \E c \in Pending :
          \/ Depend(c) \/ Finish(c)
          \/ \E n \in 1..MaxBody : Receive(c, n)
          \/ \E k \in Clients, path \in Paths, marked \in BOOLEAN,
                origin \in {"none", "ours", "foreign"}, length \in 0..MaxBody,
                declared \in BOOLEAN, role \in 0..2 :
                Arrive(c, k, path, Genuine(marked, origin), length, declared, role)

LimitsSpec == LimitsInit /\ [][LimitsNext]_limitsVars

(***************************************************************************)
(* Properties                                                              *)
(***************************************************************************)
\* In no window of time are more requests of one address let through to the paths
\* of one bucket than its limit.
WindowKept ==
    \A b \in Buckets, k \in Clients :
        \A h \in admitted[b][k] :
            Cardinality({g \in admitted[b][k] : g.at >= h.at /\ g.at < h.at + Window}) <= RateLimit(b)

\* Refused attempts do not keep a client out: what is refused is over the limit by
\* the requests that were let through.
NeverEarly == ~ early

\* A parser is handed no more than the limit of its path, declared or not, and a
\* route runs only behind every check.
OnlyChecked ==
    \A c \in Pending : LET r == pending[c] IN r # NoRequest =>
        /\ WithBody(r.path) => r.handed <= BodyLimit(r.path)
        /\ r.stage = "route" =>
              /\ authOn /\ Unsafe(r.path) => r.genuine
              /\ authOn => r.role >= RoleNeeded(r.path)
              /\ Managing(r.path) => managed

RequestsBounded == WindowKept /\ NeverEarly /\ OnlyChecked
===============================================================================
