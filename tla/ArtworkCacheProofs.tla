-------------------------- MODULE ArtworkCacheProofs --------------------------
(***************************************************************************)
(* Proofs about Outbound and ArtworkCache for every number of requests,    *)
(* hosts, redirects, bytes and levels: the requests of the cache are those *)
(* of Outbound, so what holds of NetSpec holds of Spec.                    *)
(***************************************************************************)
EXTENDS ArtworkCache, TLAPS

-----------------------------------------------------------------------------
(* The requests. *)

\* What the hosts of a request's messages have to do with where it is now.
HostInv ==
    \A r \in Requests :
        /\ at[r] = "idle" => sent[r] = {}
        /\ at[r] = "waiting" /\ leg[r] = "resolve" => home[r] = Control
        /\ at[r] = "waiting" /\ leg[r] = "fetch" => home[r] \in Trusted(r)
        /\ \A x \in sent[r] :
              /\ x.cookie <=> x.leg = "resolve"
              /\ x.leg = "resolve" => x.host = Control
              /\ x.leg = "fetch" =>
                    leg[r] = "fetch" /\ x.host = home[r] /\ home[r] \in Trusted(r)

\* What the file of a request has to do with where it is now.
FileInv ==
    \A r \in Requests :
        /\ at[r] \in {"idle", "waiting"} => size[r] = 0
        /\ at[r] \in {"waiting", "failed"} => file[r] = None
        /\ Kind[r] # "download" => file[r] = None
        /\ at[r] = "reading" /\ Kind[r] = "download" =>
              file[r] = size[r] /\ declared[r] = granted[r]

NetInv == NetTypeOK /\ HostInv /\ FileInv

LEMMA NetInvInit == NetInit => NetInv
  BY OutboundAssumption
  DEF NetInit, NetInv, NetTypeOK, HostInv, FileInv, Sizes, Hosts

USE DEF Set

\* What sending a message does, and to which request only.
LEMMA SendFacts ==
    ASSUME NetTypeOK, NEW r \in Requests, NEW l \in {"resolve", "fetch"}, NEW h \in Hosts,
           Send(r, l, h)
    PROVE  /\ at' \in [Requests -> {"idle", "waiting", "reading", "done", "failed"}]
           /\ leg' \in [Requests -> {"resolve", "fetch"}]
           /\ sent' \in [Requests -> SUBSET [leg : {"resolve", "fetch"}, host : Hosts,
                                             cookie : BOOLEAN]]
           /\ at'[r] = "waiting" /\ leg'[r] = l
           /\ \A x \in sent'[r] :
                 x \in sent[r] \/ (x.host = h /\ x.leg = l /\ (x.cookie <=> l = "resolve"))
           /\ \A q \in Requests \ {r} :
                 at'[q] = at[q] /\ leg'[q] = leg[q] /\ sent'[q] = sent[q]
<1>1. Message(l, h) \in [leg : {"resolve", "fetch"}, host : Hosts, cookie : BOOLEAN]
  BY DEF Message
<1>2. /\ Message(l, h).host = h /\ Message(l, h).leg = l
      /\ Message(l, h).cookie <=> l = "resolve"
  BY DEF Message
<1>3. sent' = [sent EXCEPT ![r] = sent[r] \cup {Message(l, h)}]
  BY DEF Send
<1>4. sent[r] \cup {Message(l, h)}
        \in SUBSET [leg : {"resolve", "fetch"}, host : Hosts, cookie : BOOLEAN]
  BY <1>1 DEF NetTypeOK
<1>5. /\ sent' \in [Requests -> SUBSET [leg : {"resolve", "fetch"}, host : Hosts,
                                        cookie : BOOLEAN]]
      /\ sent'[r] = sent[r] \cup {Message(l, h)}
      /\ \A q \in Requests \ {r} : sent'[q] = sent[q]
  BY <1>3, <1>4 DEF NetTypeOK
<1>6. \A x \in sent'[r] :
        x \in sent[r] \/ (x.host = h /\ x.leg = l /\ (x.cookie <=> l = "resolve"))
  BY <1>2, <1>5
<1>7. /\ at' \in [Requests -> {"idle", "waiting", "reading", "done", "failed"}]
      /\ at'[r] = "waiting" /\ \A q \in Requests \ {r} : at'[q] = at[q]
  BY DEF NetTypeOK, Send
<1>8. /\ leg' \in [Requests -> {"resolve", "fetch"}]
      /\ leg'[r] = l /\ \A q \in Requests \ {r} : leg'[q] = leg[q]
  BY DEF NetTypeOK, Send
<1> QED
  BY <1>5, <1>6, <1>7, <1>8

LEMMA NetTypeStep == NetTypeOK /\ [NetNext]_netVars => NetTypeOK'
<1> SUFFICES ASSUME NetTypeOK, [NetNext]_netVars PROVE NetTypeOK'
  OBVIOUS
<1> USE OutboundAssumption DEF NetTypeOK, Sizes, Hosts, Kinds
<1>1. CASE UNCHANGED netVars
  BY <1>1 DEF netVars
<1>2. ASSUME NEW r \in Requests, AskPlatform(r) PROVE NetTypeOK'
  BY <1>2, SendFacts DEF AskPlatform
<1>3. ASSUME NEW r \in Requests, NEW u \in Urls, AskCover(r, u) PROVE NetTypeOK'
  BY <1>3, SendFacts DEF AskCover, Urls
<1>4. ASSUME NEW r \in Requests, NEW u \in Urls, Follow(r, u) PROVE NetTypeOK'
  BY <1>4, SendFacts DEF Follow, MayFollow, Urls
<1>5. ASSUME NEW r \in Requests, NEW u \in Urls, NEW n \in Sizes, Resolved(r, u, n)
      PROVE NetTypeOK'
  BY <1>5, SendFacts DEF Resolved, Urls
<1>6. ASSUME NEW r \in Requests, Declined(r) PROVE NetTypeOK'
  BY <1>6, SendFacts DEF Declined, NextLevel
<1>7. ASSUME NEW r \in Requests, Answered(r) PROVE NetTypeOK'
  BY <1>7 DEF Answered
<1>8. ASSUME NEW r \in Requests, NEW d \in Sizes \cup {None}, Accepted(r, d) PROVE NetTypeOK'
  BY <1>8 DEF Accepted
<1>9. ASSUME NEW r \in Requests, NEW n \in 1..MaxBytes, Chunk(r, n) PROVE NetTypeOK'
  BY <1>9 DEF Chunk
<1>10. ASSUME NEW r \in Requests, CutOff(r) \/ Ended(r) PROVE NetTypeOK'
  BY <1>10 DEF CutOff, Ended
<1>11. ASSUME NEW r \in Requests, Lost(r) PROVE NetTypeOK'
  BY <1>11 DEF Lost, Unlinked
<1>12. ASSUME NEW r \in Requests, Forget(r) PROVE NetTypeOK'
  BY <1>12 DEF Forget, Cleared
<1>13. CASE NetCrash
  BY <1>13 DEF NetCrash, Cleared
<1> QED
  BY <1>1, <1>2, <1>3, <1>4, <1>5, <1>6, <1>7, <1>8, <1>9, <1>10, <1>11, <1>12, <1>13
  DEF NetNext, NetStep

LEMMA HostStep == NetTypeOK /\ HostInv /\ [NetNext]_netVars => HostInv'
<1> SUFFICES ASSUME NetTypeOK, HostInv, [NetNext]_netVars PROVE HostInv'
  OBVIOUS
<1> USE OutboundAssumption DEF NetTypeOK, HostInv, Trusted, Hosts
<1>1. CASE UNCHANGED netVars
  BY <1>1 DEF netVars
<1>2. ASSUME NEW r \in Requests, AskPlatform(r) PROVE HostInv'
  BY <1>2, SendFacts DEF AskPlatform
<1>3. ASSUME NEW r \in Requests, NEW u \in Urls, AskCover(r, u) PROVE HostInv'
  BY <1>3, SendFacts DEF AskCover, Found, Urls
<1>4. ASSUME NEW r \in Requests, NEW u \in Urls, Follow(r, u) PROVE HostInv'
  BY <1>4, SendFacts DEF Follow, Legal, Urls
<1>5. ASSUME NEW r \in Requests, NEW u \in Urls, NEW n \in Sizes, Resolved(r, u, n)
      PROVE HostInv'
  BY <1>5, SendFacts DEF Resolved, Found, Urls
<1>6. ASSUME NEW r \in Requests, Declined(r) PROVE HostInv'
  BY <1>6, SendFacts DEF Declined
<1>7. ASSUME NEW r \in Requests, Answered(r) \/ CutOff(r) \/ Ended(r) \/ Lost(r) PROVE HostInv'
  BY <1>7 DEF Answered, CutOff, Ended, Lost
<1>8. ASSUME NEW r \in Requests, NEW d \in Sizes \cup {None}, Accepted(r, d) PROVE HostInv'
  BY <1>8 DEF Accepted
<1>9. ASSUME NEW r \in Requests, NEW n \in 1..MaxBytes, Chunk(r, n) PROVE HostInv'
  BY <1>9 DEF Chunk
<1>10. ASSUME NEW r \in Requests, Forget(r) PROVE HostInv'
  BY <1>10 DEF Forget, Cleared
<1>11. CASE NetCrash
  BY <1>11 DEF NetCrash, Cleared
<1> QED
  BY <1>1, <1>2, <1>3, <1>4, <1>5, <1>6, <1>7, <1>8, <1>9, <1>10, <1>11
  DEF NetNext, NetStep

LEMMA FileStep == NetTypeOK /\ FileInv /\ [NetNext]_netVars => FileInv'
<1> SUFFICES ASSUME NetTypeOK, FileInv, [NetNext]_netVars PROVE FileInv'
  OBVIOUS
<1> USE OutboundAssumption DEF NetTypeOK, FileInv, Sizes
<1>1. CASE UNCHANGED netVars
  BY <1>1 DEF netVars
<1>2. ASSUME NEW r \in Requests, AskPlatform(r) PROVE FileInv'
  BY <1>2 DEF AskPlatform, Send
<1>3. ASSUME NEW r \in Requests, NEW u \in Urls, AskCover(r, u) PROVE FileInv'
  BY <1>3 DEF AskCover, Send
<1>4. ASSUME NEW r \in Requests, NEW u \in Urls, Follow(r, u) PROVE FileInv'
  BY <1>4 DEF Follow, Send
<1>5. ASSUME NEW r \in Requests, NEW u \in Urls, NEW n \in Sizes, Resolved(r, u, n)
      PROVE FileInv'
  BY <1>5 DEF Resolved, Send
<1>6. ASSUME NEW r \in Requests, Declined(r) PROVE FileInv'
  BY <1>6 DEF Declined, Send
<1>7. ASSUME NEW r \in Requests, Answered(r) \/ CutOff(r) \/ Ended(r) PROVE FileInv'
  BY <1>7 DEF Answered, CutOff, Ended
<1>8. ASSUME NEW r \in Requests, NEW d \in Sizes \cup {None}, Accepted(r, d) PROVE FileInv'
  BY <1>8 DEF Accepted, Acceptable
<1>9. ASSUME NEW r \in Requests, NEW n \in 1..MaxBytes, Chunk(r, n) PROVE FileInv'
  BY <1>9 DEF Chunk
<1>10. ASSUME NEW r \in Requests, Lost(r) PROVE FileInv'
  BY <1>10 DEF Lost, Unlinked
<1>11. ASSUME NEW r \in Requests, Forget(r) PROVE FileInv'
  BY <1>11 DEF Forget, Cleared
<1>12. CASE NetCrash
  BY <1>12 DEF NetCrash, Cleared
<1> QED
  BY <1>1, <1>2, <1>3, <1>4, <1>5, <1>6, <1>7, <1>8, <1>9, <1>10, <1>11, <1>12
  DEF NetNext, NetStep

LEMMA NetInvStep == NetInv /\ [NetNext]_netVars => NetInv'
  BY NetTypeStep, HostStep, FileStep DEF NetInv

THEOREM RequestsInvariant == NetSpec => []NetInv
  BY NetInvInit, NetInvStep, PTL DEF NetSpec

\* Every redirect limit, body limit and host is kept to its range
\* (_request, _read_limited, SafeDownloader.download).
THEOREM RequestTypes == NetSpec => []NetTypeOK
  BY RequestsInvariant, PTL DEF NetInv

LEMMA HostsFromInv == NetInv => KeepsToItsHosts
<1> SUFFICES ASSUME NetInv, NEW r \in Requests, NEW x \in sent[r]
             PROVE  /\ x.cookie => x.host = Control
                    /\ x.leg = "fetch" => x.host \in Trusted(r) /\ ~x.cookie
                    /\ \A y \in sent[r] : x.leg = y.leg => x.host = y.host
  BY DEF KeepsToItsHosts
<1>1. \A y \in sent[r] : y.leg \in {"resolve", "fetch"}
  BY DEF NetInv, NetTypeOK
<1> QED
  BY <1>1 DEF NetInv, HostInv

\* Wherever the server redirects to, the cookie goes to the control host and the
\* rest to one host of the platform (credential_host and _validate_url of
\* _request).
THEOREM RequestsKeepToTheirHosts == NetSpec => []KeepsToItsHosts
  BY RequestsInvariant, HostsFromInv, PTL

-----------------------------------------------------------------------------
(* A request is a transfer. *)

Phase == [r \in Requests |-> IF Running(r) THEN "running" ELSE at[r]]
Saved == [r \in Requests |-> IF at[r] \in {"done", "failed"} THEN file[r] ELSE None]

LEMMA TransferInitially == NetInit => T!TransferInit
  BY DEF NetInit, T!TransferInit, Running

LEMMA TransferStep == NetInv /\ [NetNext]_netVars => [T!TransferNext]_(T!transferVars)
<1> SUFFICES ASSUME NetInv, [NetNext]_netVars, ~UNCHANGED T!transferVars PROVE T!TransferNext
  OBVIOUS
<1> USE OutboundAssumption DEF NetInv, NetTypeOK, FileInv, Running
<1>1. CASE UNCHANGED netVars
  BY <1>1 DEF netVars, T!transferVars
<1>2. ASSUME NEW r \in Requests, AskPlatform(r) PROVE T!Start(r)
  BY <1>2 DEF AskPlatform, Send, T!Start, T!To
<1>3. ASSUME NEW r \in Requests, NEW u \in Urls, AskCover(r, u) PROVE T!Start(r) \/ T!Refuse(r)
  BY <1>3 DEF AskCover, Send, T!Start, T!Refuse, T!To
<1>4. ASSUME NEW r \in Requests, NEW u \in Urls, Follow(r, u) PROVE UNCHANGED T!transferVars
  BY <1>4 DEF Follow, Send, T!transferVars
<1>5. ASSUME NEW r \in Requests, NEW u \in Urls, NEW n \in Sizes, Resolved(r, u, n)
      PROVE T!Promise(r)
  BY <1>5 DEF Resolved, Send, Sizes, T!Promise
<1>6. ASSUME NEW r \in Requests, Declined(r) PROVE UNCHANGED T!transferVars
  BY <1>6 DEF Declined, Send, T!transferVars
<1>7. ASSUME NEW r \in Requests, Answered(r) PROVE T!Finish(r)
  BY <1>7 DEF Answered, Kinds, T!Finish, T!To
<1>8. ASSUME NEW r \in Requests, NEW d \in Sizes \cup {None}, Accepted(r, d)
      PROVE UNCHANGED T!transferVars
  BY <1>8 DEF Accepted, T!transferVars
<1>9. ASSUME NEW r \in Requests, NEW n \in 1..MaxBytes, Chunk(r, n)
      PROVE UNCHANGED T!transferVars
  BY <1>9 DEF Chunk, T!transferVars
<1>10. ASSUME NEW r \in Requests, CutOff(r) PROVE T!Finish(r)
  BY <1>10 DEF CutOff, T!Finish, T!To
<1>11. ASSUME NEW r \in Requests, Ended(r) PROVE T!Save(r) \/ T!Finish(r)
  <2>1. CASE Kind[r] = "download"
    <3>1. size[r] \in 1..MaxBytes /\ granted[r] = size[r] /\ file[r] = size[r]
      BY <1>11, <2>1 DEF Ended, Complete, NotEmpty
    <3> QED
      BY <1>11, <3>1 DEF Ended, T!Save, T!To
  <2>2. CASE Kind[r] # "download"
    BY <1>11, <2>2 DEF Ended, T!Finish, T!To
  <2> QED
    BY <2>1, <2>2
<1>12. ASSUME NEW r \in Requests, Lost(r) PROVE T!Finish(r)
  BY <1>12 DEF Lost, Unlinked, T!Finish, T!To
<1>13. ASSUME NEW r \in Requests, Forget(r) PROVE T!Clear({r})
  BY <1>13 DEF Forget, Cleared, T!Clear
<1>14. CASE NetCrash
  BY <1>14 DEF NetCrash, Cleared, T!Clear, T!TransferNext
<1> QED
  BY <1>1, <1>2, <1>3, <1>4, <1>5, <1>6, <1>7, <1>8, <1>9, <1>10, <1>11, <1>12, <1>13, <1>14
  DEF NetNext, NetStep, T!TransferNext

\* A download leaves a file of the granted length or none (SafeDownloader.download).
THEOREM RequestsAreTransfers == NetSpec => Transfers
<1>1. NetInv /\ [NetNext]_netVars => [T!TransferNext]_(T!transferVars)
  BY TransferStep
<1> QED
  BY <1>1, TransferInitially, RequestsInvariant, PTL DEF NetSpec, Transfers, T!TransferSpec
-----------------------------------------------------------------------------
(* The cache sends requests only the way Outbound does. *)

LEMMA CacheStepsAreRequests == [CacheNext]_allVars => [NetNext]_netVars
<1> SUFFICES ASSUME [CacheNext]_allVars PROVE [NetNext]_netVars
  OBVIOUS
<1>1. CASE UNCHANGED allVars
  BY <1>1 DEF allVars
<1>2. CASE Network
  BY <1>2 DEF Network, NetNext
<1>3. CASE Tick
  BY <1>3 DEF Tick
<1>4. CASE Crash
  BY <1>4 DEF Crash, NetNext
<1>5. ASSUME NEW t \in Threads, ThreadStep(t) PROVE [NetNext]_netVars
  <2>1. t \in Requests
    BY DEF Threads
  <2> QED
    BY <1>5, <2>1 DEF ThreadStep, NetNext, Ask, Look, Stat, Read, ReadType, Keep, Drop,
       DropType, Fetch, Fetched, NotFetched, StoreImage, StoreType, StoreMemory,
       StoreFails, Served
<1> QED
  BY <1>1, <1>2, <1>3, <1>4, <1>5 DEF CacheNext

\* What is proved of the requests holds in the composition.
THEOREM CacheUsesRequests == Spec => NetSpec
<1>1. CacheInit => NetInit
  BY DEF CacheInit
<1> QED
  BY <1>1, CacheStepsAreRequests, PTL DEF Spec, NetSpec

-----------------------------------------------------------------------------
(* What is in the cache and in the hands of its threads. *)

MemoryInv ==
    memory # None =>
        memory.cover.kind = memory.cover.mime /\ memory.until < memory.cover.born + 2 * TTL

ThreadInv ==
    \A t \in Threads :
        /\ asOf[t] <= now
        /\ step[t] = "read" => image = None \/ asOf[t] < image.born + TTL
        /\ step[t] \in {"type", "keep"} => asOf[t] < got[t].born + TTL
        /\ step[t] \in {"keep", "store", "storeType", "storeMemory", "serve"} =>
              got[t].kind = got[t].mime
        /\ step[t] = "serve" => asOf[t] < got[t].born + 2 * TTL

CacheInv == CacheTypeOK /\ MemoryInv /\ ThreadInv

LEMMA CacheInvInit == CacheInit => CacheInv
  BY ArtworkAssumption
  DEF CacheInit, CacheInv, CacheTypeOK, MemoryInv, ThreadInv, Steps, Holding

\* A thread's return leaves it without an image, whatever it was doing.
LEMMA ReturnFacts ==
    ASSUME CacheTypeOK, NEW t \in Threads, Return(t)
    PROVE  /\ step' \in [Threads -> Steps] /\ tries' \in [Threads -> 0..2]
           /\ asOf' \in [Threads -> 0..MaxNow] /\ got' \in [Threads -> Covers \cup {None}]
           /\ step'[t] = "idle" /\ asOf'[t] = 0
           /\ \A q \in Threads \ {t} :
                 step'[q] = step[q] /\ asOf'[q] = asOf[q] /\ got'[q] = got[q]
  BY ArtworkAssumption DEF CacheTypeOK, Return, Go, Steps

LEMMA MissedFacts ==
    ASSUME CacheTypeOK, NEW t \in Threads, Missed(t)
    PROVE  /\ step' \in [Threads -> Steps] /\ tries' \in [Threads -> 0..2]
           /\ asOf' \in [Threads -> 0..MaxNow] /\ got' \in [Threads -> Covers \cup {None}]
           /\ step'[t] \in {"look", "idle", "asking"}
           /\ asOf'[t] \in {0, now, asOf[t]}
           /\ \A q \in Threads \ {t} :
                 step'[q] = step[q] /\ asOf'[q] = asOf[q] /\ got'[q] = got[q]
<1>1. CASE Return(t)
  BY <1>1, ReturnFacts
<1>2. CASE ~Return(t)
  BY <1>2 DEF CacheTypeOK, Missed, Go, Steps
<1> QED
  BY <1>1, <1>2

\* A thread that returns or goes on without an image disturbs nothing.
LEMMA Harmless ==
    ASSUME CacheInv, NEW t \in Threads, Return(t) \/ Missed(t), UNCHANGED now,
           image' \in {image, None}, type' \in {type, None}, memory' \in {memory, None}
    PROVE  CacheInv'
<1>1. /\ step' \in [Threads -> Steps] /\ tries' \in [Threads -> 0..2]
      /\ asOf' \in [Threads -> 0..MaxNow] /\ got' \in [Threads -> Covers \cup {None}]
      /\ step'[t] \in {"look", "idle", "asking"} /\ asOf'[t] \in {0, now, asOf[t]}
      /\ \A q \in Threads \ {t} :
            step'[q] = step[q] /\ asOf'[q] = asOf[q] /\ got'[q] = got[q]
  BY ReturnFacts, MissedFacts DEF CacheInv
<1>2. CacheTypeOK'
  BY <1>1 DEF CacheInv, CacheTypeOK, Holding
<1>3. MemoryInv'
  BY DEF CacheInv, MemoryInv
<1>4. ThreadInv'
  BY <1>1 DEF CacheInv, CacheTypeOK, ThreadInv
<1> QED
  BY <1>2, <1>3, <1>4 DEF CacheInv

\* A thread takes an image into its hands, and may put it into memory.
LEMMA Taken ==
    ASSUME CacheInv, NEW t \in Threads, NEW c \in Covers, NEW s \in Holding, NEW m \in Nat,
           Go(t, s), got' = [got EXCEPT ![t] = c], UNCHANGED <<now, image, type, tries>>,
           asOf' \in [Threads -> 0..MaxNow], asOf'[t] <= now,
           \A q \in Threads \ {t} : asOf'[q] = asOf[q],
           memory' \in {memory, [cover |-> c, until |-> m]},
           memory' # memory => c.kind = c.mime /\ m < c.born + 2 * TTL,
           s \in {"type", "keep"} => asOf'[t] < c.born + TTL,
           s # "type" => c.kind = c.mime,
           s = "serve" => asOf'[t] < c.born + 2 * TTL
    PROVE  CacheInv'
<1>1. /\ got' \in [Threads -> Covers \cup {None}] /\ got'[t] = c /\ c # None
      /\ \A q \in Threads \ {t} : got'[q] = got[q]
  BY ArtworkAssumption DEF CacheInv, CacheTypeOK, Covers
<1>2. /\ step' \in [Threads -> Steps] /\ step'[t] = s /\ s \in Steps
      /\ \A q \in Threads \ {t} : step'[q] = step[q]
  BY DEF CacheInv, CacheTypeOK, Steps, Holding, Go
<1>3. memory' \in [cover : Covers, until : Nat] \cup {None}
  BY DEF CacheInv, CacheTypeOK
<1>4. CacheTypeOK'
  BY <1>1, <1>2, <1>3 DEF CacheInv, CacheTypeOK
<1>5. MemoryInv'
  BY <1>3 DEF CacheInv, MemoryInv
<1>6. ThreadInv'
  BY <1>1, <1>2 DEF CacheInv, ThreadInv, Holding
<1> QED
  BY <1>4, <1>5, <1>6 DEF CacheInv

LEMMA CacheInvStep == CacheInv /\ [CacheNext]_allVars => CacheInv'
<1> SUFFICES ASSUME CacheInv, [CacheNext]_allVars PROVE CacheInv'
  OBVIOUS
<1> USE ArtworkAssumption
<1>1. CASE UNCHANGED <<now, entry, step, tries, asOf, got>>
  BY <1>1 DEF entry, CacheInv, CacheTypeOK, MemoryInv, ThreadInv
<1>2. CASE Tick
  BY <1>2 DEF Tick, entry, CacheInv, CacheTypeOK, MemoryInv, ThreadInv
<1>3. CASE Crash
  BY <1>3 DEF Crash, CacheInv, CacheTypeOK, MemoryInv, ThreadInv, Steps, Holding
<1>4. ASSUME NEW t \in Threads, NEW n \in {1, 2}, Ask(t, n) PROVE CacheInv'
  BY <1>4 DEF Ask, Go, entry, CacheInv, CacheTypeOK, MemoryInv, ThreadInv, Steps, Holding
<1>5. ASSUME NEW t \in Threads, Look(t) PROVE CacheInv'
  <2>1. CASE ~(memory # None /\ memory.until > asOf[t])
    BY <1>5, <2>1
    DEF Look, Go, CacheInv, CacheTypeOK, MemoryInv, ThreadInv, Steps, Holding
  <2>2. CASE memory # None /\ memory.until > asOf[t]
    <3>1. /\ memory # None /\ asOf[t] < memory.until /\ Go(t, "serve")
          /\ got' = [got EXCEPT ![t] = memory.cover]
          /\ UNCHANGED <<now, image, type, memory, tries, asOf>>
      BY <1>5, <2>2 DEF Look, CacheInv, CacheTypeOK
    <3>2. memory.cover \in Covers /\ memory.cover.kind = memory.cover.mime
      BY <3>1 DEF CacheInv, CacheTypeOK, MemoryInv
    <3>3. asOf[t] < memory.cover.born + 2 * TTL
      BY <3>1, <3>2 DEF CacheInv, CacheTypeOK, MemoryInv, Covers
    <3>4. asOf[t] <= now /\ asOf \in [Threads -> 0..MaxNow]
      BY DEF CacheInv, CacheTypeOK, ThreadInv
    <3> QED
      BY <3>1, <3>2, <3>3, <3>4, Taken DEF Holding
  <2> QED
    BY <2>1, <2>2
<1>6. ASSUME NEW t \in Threads, Stat(t) PROVE CacheInv'
  <2>1. CASE Missed(t)
    BY <1>6, <2>1, Harmless DEF Stat, entry
  <2>2. CASE ~Missed(t)
    BY <1>6, <2>2
    DEF Stat, Go, entry, CacheInv, CacheTypeOK, MemoryInv, ThreadInv, Steps, Holding, Covers
  <2> QED
    BY <2>1, <2>2
<1>7. ASSUME NEW t \in Threads, Read(t) PROVE CacheInv'
  <2>1. CASE Missed(t)
    BY <1>7, <2>1, Harmless DEF Read, entry
  <2>2. CASE ~Missed(t)
    BY <1>7, <2>2
    DEF Read, Gone, Go, entry, CacheInv, CacheTypeOK, MemoryInv, ThreadInv, Steps, Holding
  <2> QED
    BY <2>1, <2>2
<1>8. ASSUME NEW t \in Threads, ReadType(t) PROVE CacheInv'
  <2>1. CASE Missed(t)
    BY <1>8, <2>1, Harmless DEF ReadType, entry
  <2>2. CASE ~Missed(t)
    <3> DEFINE c == [got[t] EXCEPT !.mime = type]
    <3>1. /\ step[t] = "type" /\ type # None /\ got' = [got EXCEPT ![t] = c]
          /\ UNCHANGED <<now, image, type, memory, tries, asOf>>
      BY <1>8, <2>2 DEF ReadType, entry
    <3>2. got[t] \in Covers /\ type \in ImageTypes /\ asOf[t] < got[t].born + TTL
      BY <3>1 DEF CacheInv, CacheTypeOK, ThreadInv, Holding
    <3>3. c \in Covers /\ c.kind = got[t].kind /\ c.mime = type /\ c.born = got[t].born
      BY <3>2 DEF Covers
    <3>4. asOf[t] <= now /\ asOf \in [Threads -> 0..MaxNow]
      BY DEF CacheInv, CacheTypeOK, ThreadInv
    <3>5. CASE Fits(t)
      <4>1. Go(t, "keep") /\ c.kind = c.mime
        BY <1>8, <2>2, <3>3, <3>5 DEF ReadType, Fits
      <4> HIDE DEF c
      <4> QED
        BY <3>1, <3>2, <3>3, <3>4, <4>1, Taken DEF Holding
    <3>6. CASE ~Fits(t)
      <4>1. Go(t, "drop")
        BY <1>8, <2>2, <3>6 DEF ReadType
      <4>2. /\ got' \in [Threads -> Covers \cup {None}]
            /\ \A q \in Threads \ {t} : got'[q] = got[q]
        BY <3>1, <3>3 DEF CacheInv, CacheTypeOK
      <4> HIDE DEF c
      <4> QED
        BY <3>1, <4>1, <4>2
        DEF Go, CacheInv, CacheTypeOK, MemoryInv, ThreadInv, Steps, Holding
    <3> QED
      BY <3>5, <3>6
  <2> QED
    BY <2>1, <2>2
<1>9. ASSUME NEW t \in Threads, Keep(t) PROVE CacheInv'
  BY <1>9
  DEF Keep, From, Go, CacheInv, CacheTypeOK, MemoryInv, ThreadInv, Steps, Holding, Covers
<1>10. ASSUME NEW t \in Threads, Drop(t) PROVE CacheInv'
  BY <1>10 DEF Drop, Go, CacheInv, CacheTypeOK, MemoryInv, ThreadInv, Steps, Holding
<1>11. ASSUME NEW t \in Threads, DropType(t) PROVE CacheInv'
  BY <1>11, Harmless DEF DropType
<1>12. ASSUME NEW t \in Threads, NEW k \in ImageTypes, Fetched(t, k) PROVE CacheInv'
  <2> DEFINE c == [kind |-> k, mime |-> k, born |-> now]
  <2>1. /\ Go(t, "store") /\ got' = [got EXCEPT ![t] = c]
        /\ UNCHANGED <<now, image, type, memory, tries, asOf>>
    BY <1>12 DEF Fetched, entry
  <2>2. c \in Covers /\ c.kind = c.mime
    BY DEF Covers, CacheInv, CacheTypeOK
  <2>3. asOf[t] <= now /\ asOf \in [Threads -> 0..MaxNow]
    BY DEF CacheInv, CacheTypeOK, ThreadInv
  <2> HIDE DEF c
  <2> QED
    BY <2>1, <2>2, <2>3, Taken DEF Holding
<1>13. ASSUME NEW t \in Threads, NotFetched(t) \/ StoreFails(t) \/ Served(t) PROVE CacheInv'
  BY <1>13, Harmless DEF NotFetched, StoreFails, Served, entry
<1>14. ASSUME NEW t \in Threads, StoreImage(t) PROVE CacheInv'
  BY <1>14
  DEF StoreImage, Newborn, Go, CacheInv, CacheTypeOK, MemoryInv, ThreadInv, Steps, Holding,
      Covers
<1>15. ASSUME NEW t \in Threads, StoreType(t) PROVE CacheInv'
  BY <1>15
  DEF StoreType, Go, CacheInv, CacheTypeOK, MemoryInv, ThreadInv, Steps, Holding, Covers
<1>16. ASSUME NEW t \in Threads, StoreMemory(t) PROVE CacheInv'
  <2> DEFINE c == Newborn(t)
  <2>1. /\ step[t] = "storeMemory" /\ Go(t, "serve") /\ got' = [got EXCEPT ![t] = c]
        /\ asOf' = [asOf EXCEPT ![t] = now] /\ memory' = [cover |-> c, until |-> now + TTL]
        /\ UNCHANGED <<now, image, type, tries>>
    BY <1>16 DEF StoreMemory
  <2>2. got[t] \in Covers /\ got[t].kind = got[t].mime /\ now \in 0..MaxNow
    BY <2>1 DEF CacheInv, CacheTypeOK, ThreadInv, Holding
  <2>3. c \in Covers /\ c.kind = c.mime /\ c.born = now
    BY <2>2 DEF Newborn, Covers
  <2>4. /\ asOf' \in [Threads -> 0..MaxNow] /\ asOf'[t] = now
        /\ \A q \in Threads \ {t} : asOf'[q] = asOf[q]
    BY <2>1, <2>2 DEF CacheInv, CacheTypeOK
  <2> DEFINE m == now + TTL
  <2>5. m \in Nat /\ m < c.born + 2 * TTL /\ now < c.born + 2 * TTL
    BY <2>2, <2>3
  <2>6. /\ Go(t, "serve") /\ got' = [got EXCEPT ![t] = c]
        /\ memory' \in {memory, [cover |-> c, until |-> m]}
        /\ UNCHANGED <<now, image, type, tries>>
    BY <2>1
  <2>7. "serve" \in Holding /\ now <= now
    BY <2>2 DEF Holding
  <2> HIDE DEF c, m
  <2> QED
    BY <2>3, <2>4, <2>5, <2>6, <2>7, Taken
<1>17. ASSUME NEW t \in Threads, NEW u \in Urls, Fetch(t, u) PROVE CacheInv'
  BY <1>1, <1>17 DEF Fetch, cacheVars
<1>18. CASE Network
  BY <1>1, <1>18 DEF Network, cacheVars
<1>19. CASE UNCHANGED allVars
  BY <1>1, <1>19 DEF allVars, cacheVars
<1> QED
  BY <1>2, <1>3, <1>4, <1>5, <1>6, <1>7, <1>8, <1>9, <1>10, <1>11, <1>12, <1>13, <1>14,
     <1>15, <1>16, <1>17, <1>18, <1>19
  DEF CacheNext, ThreadStep

THEOREM CacheInvariant == Spec => []CacheInv
  BY CacheInvInit, CacheInvStep, PTL DEF Spec

\* No thread goes on with an image that vanished between its steps (cached).
THEOREM CacheTypes == Spec => []CacheTypeOK
  BY CacheInvariant, PTL DEF CacheInv

\* Image and type fit whenever a cover is served (cached, _store).
THEOREM CoversFit == Spec => []ServedFits
<1>1. CacheInv => ServedFits
  BY DEF CacheInv, ThreadInv, ServedFits
<1> QED
  BY <1>1, CacheInvariant, PTL

\* No cover is served twice its lifetime after it was stored (cached, _store).
THEOREM CoversAreRecent == Spec => []ServedIsRecent
<1>1. CacheInv => ServedIsRecent
  BY DEF CacheInv, ThreadInv, ServedIsRecent
<1> QED
  BY <1>1, CacheInvariant, PTL
=============================================================================
