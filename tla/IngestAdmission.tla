--------------------------- MODULE IngestAdmission ---------------------------
(***************************************************************************)
(* What stands between a client and the envelope queue: ingest_envelope    *)
(* (api/ingest.rs), ingest_minidump (api/minidump.rs) and the cache of     *)
(* origin allowlists, composed with the rate limiter.                      *)
(*                                                                         *)
(* Requests run concurrently.  The allowlist is looked up in a cache,  *)
(* read on a reader connection without a lock and put back with the time   *)
(* taken before the read.                                                  *)
(***************************************************************************)
EXTENDS RateLimiter

CONSTANTS
  Client,         \* senders of requests
  Sends,          \* Sends[c]: [header, authorization, query, project, origin, route, body]
  KeyProject,     \* KeyProject[k]
  Origin,         \* origins a browser may send
  OriginList,     \* values of project_settings.allowed_origins
  OriginTtl,      \* ORIGIN_CACHE_TTL in ticks
  MaxSends,       \* bound: requests of a client
  MaxIngestEdits  \* bound: changed allowlists, revoked keys and failed reads

NoOrigin == "no origin"
NoKey == "no key"
NoCode == 0
Project == {KeyProject[k] : k \in IngestKey}

\* SentryAuth: the key of the first place that has one.
SentKey(c) ==
  CASE Sends[c].header # NoKey -> Sends[c].header
    [] Sends[c].header = NoKey /\ Sends[c].authorization # NoKey -> Sends[c].authorization
    [] OTHER -> Sends[c].query

IngestAssumption ==
  /\ OriginTtl \in Nat \ {0}
  /\ {} \in OriginList
  /\ \A l \in OriginList : l \subseteq Origin
  /\ NoKey \notin IngestKey
  /\ \A c \in Client : Sends[c].body \in {"ok", "oversized", "bomb", "garbled"}
ASSUME IngestAssumption

VARIABLES
  keyActive,      \* keyActive[k]: the key exists, is active and has its project
  allowed,        \* allowed[p]: the project's allowlist
  originCache,    \* originCache[p]: <<>> or << [list, fetched] >>
  ingest,         \* ingest[c]: progress of the request a client has sent
  pastLists,      \* history: [project, list, until] of replaced allowlists
  ingestEdits

ingestVars == <<ingestTime, rateVars, keyActive, allowed, originCache, ingest, pastLists,
                ingestEdits>>
originVars == <<allowed, originCache, pastLists>>

Settled == [sent |-> 0, step |-> "idle", asked |-> 0, list |-> <<>>, code |-> NoCode]

IngestTypeOK ==
  /\ allowed \in [Project -> OriginList]
  /\ \A c \in Client : ingest[c].step \in {"idle", "resolved", "origin", "select", "put",
                                          "judge", "body", "persist"}
  /\ \A c \in Client : ingest[c].code \in {NoCode, 200, 400, 401, 403, 413, 429, 500}

IngestInit ==
  /\ RateInit
  /\ keyActive = [k \in IngestKey |-> TRUE]
  /\ allowed \in [Project -> OriginList]
  /\ originCache = [p \in Project |-> <<>>]
  /\ ingest = [c \in Client |-> Settled]
  /\ pastLists = {}
  /\ ingestEdits = 0

------------------------------------------------------------------------------
(* A request.                                                              *)

Reply(c, code) ==
  ingest' = [ingest EXCEPT ![c] = [Settled EXCEPT !.sent = ingest[c].sent, !.code = code]]
Advance(c, step) == ingest' = [ingest EXCEPT ![c].step = step]

\* resolve_project_key, on a reader connection: the key is there and active, and
\* so is its project.
Resolves(k) == k \in IngestKey /\ keyActive[k]

\* A request without a key is refused first; then the raw size is checked, and
\* the key.  An unknown key and another project's get the same answer.
ResolveKey(c) ==
  /\ ingest[c].step = "idle"
  /\ ingest[c].sent < MaxSends
  /\ ingest' = [ingest EXCEPT ![c] =
       LET code == CASE SentKey(c) = NoKey -> 401
                     [] SentKey(c) # NoKey /\ Sends[c].body = "oversized" -> 413
                     [] OTHER -> IF Resolves(SentKey(c))
                                    /\ Sends[c].project = KeyProject[SentKey(c)]
                                 THEN NoCode ELSE 401
       IN  [Settled EXCEPT !.sent = ingest[c].sent + 1, !.code = code,
                           !.step = IF code = NoCode THEN "resolved" ELSE "idle"]]
  /\ UNCHANGED <<ingestTime, keyActive, rateVars, originVars, ingestEdits>>

\* The limit is charged before the origin and the body are looked at.  The
\* minidump route knows no origins.
LimitRate(c) ==
  LET k == SentKey(c)
      next == IF Sends[c].route = "minidump" \/ Sends[c].origin = NoOrigin
              THEN "body" ELSE "origin"
  IN
  /\ ingest[c].step = "resolved"
  /\ CheckRate(k)
  /\ IF Allowed(k) THEN Advance(c, next) ELSE Reply(c, 429)
  /\ UNCHANGED <<ingestTime, keyActive, originVars, ingestEdits>>

CacheFresh(p) ==
  originCache[p] # <<>> /\ ingestTime - originCache[p][1].fetched < OriginTtl

\* project_origin_matchers: the time is taken, then the cache is asked.
LookUpOrigins(c) ==
  LET p == KeyProject[SentKey(c)] IN
  /\ ingest[c].step = "origin"
  /\ ingest' = [ingest EXCEPT ![c].asked = ingestTime,
       ![c].step = IF CacheFresh(p) THEN "judge" ELSE "select",
       ![c].list = IF CacheFresh(p) THEN <<originCache[p][1].list>> ELSE <<>>]
  /\ UNCHANGED <<ingestTime, keyActive, rateVars, originVars, ingestEdits>>

SelectOrigins(c) ==
  /\ ingest[c].step = "select"
  /\ ingest' = [ingest EXCEPT ![c].step = "put",
                              ![c].list = <<allowed[KeyProject[SentKey(c)]]>>]
  /\ UNCHANGED <<ingestTime, keyActive, rateVars, originVars, ingestEdits>>

\* A read that fails counts as a project without an allowlist.
SelectOriginsFails(c) ==
  /\ ingest[c].step = "select"
  /\ ingestEdits < MaxIngestEdits
  /\ ingestEdits' = ingestEdits + 1
  /\ ingest' = [ingest EXCEPT ![c].step = "put", ![c].list = << {} >>]
  /\ pastLists' = pastLists \cup
       {[project |-> KeyProject[SentKey(c)], list |-> {}, until |-> ingestTime]}
  /\ UNCHANGED <<ingestTime, keyActive, rateVars, allowed, originCache>>

FetchedWhenPut(c) == ingestTime \* mutant: the entry's age counts from the put

FetchedAt(c) == ingest[c].asked

PutOrigins(c) ==
  /\ ingest[c].step = "put"
  /\ originCache' = [originCache EXCEPT ![KeyProject[SentKey(c)]] =
       << [list |-> ingest[c].list[1], fetched |-> FetchedAt(c)] >>]
  /\ Advance(c, "judge")
  /\ UNCHANGED <<ingestTime, keyActive, rateVars, allowed, pastLists, ingestEdits>>

JudgeOrigin(c) ==
  /\ ingest[c].step = "judge"
  /\ IF ingest[c].list[1] = {} \/ Sends[c].origin \in ingest[c].list[1]
     THEN Advance(c, "body") ELSE Reply(c, 403)
  /\ UNCHANGED <<ingestTime, keyActive, rateVars, originVars, ingestEdits>>

\* Decompression is capped; a minidump that inflates too far is a bad request.
DecodeBody(c) ==
  /\ ingest[c].step = "body"
  /\ CASE Sends[c].body = "bomb" ->
            Reply(c, IF Sends[c].route = "minidump" THEN 400 ELSE 413)
       [] Sends[c].body = "garbled" -> Reply(c, 400)
       [] OTHER -> Advance(c, "persist")
  /\ UNCHANGED <<ingestTime, keyActive, rateVars, originVars, ingestEdits>>

\* persist_envelope (EnvelopeQueue!Ingest), or a statement that fails.
Persist(c) ==
  /\ ingest[c].step = "persist"
  /\ \/ Reply(c, 200) /\ UNCHANGED ingestEdits
     \/ /\ ingestEdits < MaxIngestEdits
        /\ ingestEdits' = ingestEdits + 1
        /\ Reply(c, 500)
  /\ UNCHANGED <<ingestTime, keyActive, rateVars, originVars>>

------------------------------------------------------------------------------
(* Around it.                                                              *)

\* Nothing in the server writes allowed_origins: it is edited in the database.
EditOrigins(p, list) ==
  /\ ingestEdits < MaxIngestEdits
  /\ list # allowed[p]
  /\ ingestEdits' = ingestEdits + 1
  /\ allowed' = [allowed EXCEPT ![p] = list]
  /\ pastLists' = pastLists \cup {[project |-> p, list |-> allowed[p], until |-> ingestTime]}
  /\ UNCHANGED <<ingestTime, keyActive, rateVars, originCache, ingest>>

RevokeKey(k) ==
  /\ ingestEdits < MaxIngestEdits
  /\ keyActive[k]
  /\ ingestEdits' = ingestEdits + 1
  /\ keyActive' = [keyActive EXCEPT ![k] = FALSE]
  /\ UNCHANGED <<ingestTime, rateVars, originVars, ingest>>

EvictOrigins(p) ==
  /\ originCache[p] # <<>>
  /\ originCache' = [originCache EXCEPT ![p] = <<>>]
  /\ UNCHANGED <<ingestTime, keyActive, rateVars, allowed, ingest, pastLists, ingestEdits>>

IngestTick == RateTick /\ UNCHANGED <<keyActive, originVars, ingest, ingestEdits>>

IngestNext ==
  \/ \E c \in Client :
       \/ ResolveKey(c) \/ LimitRate(c) \/ LookUpOrigins(c) \/ SelectOrigins(c)
       \/ SelectOriginsFails(c) \/ PutOrigins(c) \/ JudgeOrigin(c) \/ DecodeBody(c)
       \/ Persist(c)
  \/ \E p \in Project : EvictOrigins(p) \/ \E list \in OriginList : EditOrigins(p, list)
  \/ \E k \in IngestKey : RevokeKey(k)
  \/ IngestTick

IngestSpec == IngestInit /\ [][IngestNext]_ingestVars

------------------------------------------------------------------------------
(* Properties.                                                             *)

\* An origin is judged by a list that the project had no longer than the cache's
\* time to live before the request asked, or that a failed read left in its
\* place: a slow read does not prolong the life of what it read.
OriginsFresh ==
  \A c \in Client : ingest[c].step = "judge" =>
    LET p == KeyProject[SentKey(c)]
        list == ingest[c].list[1]
    IN  \/ list = allowed[p]
        \/ \E past \in pastLists : /\ past.project = p
                                   /\ past.list = list
                                   /\ past.until > ingest[c].asked - OriginTtl
=============================================================================
