------------------------------- MODULE Outbound -------------------------------
(***************************************************************************)
(* The requests that leave the process: PlatformHttpClient and the cookie  *)
(* jar client of network.py, SafeDownloader of download/service.py, and    *)
(* the two stages of a preview or a download in runtime.py, which asks the *)
(* control host for a media URL with the session's cookie and then fetches *)
(* that URL without it.  The server at the other end answers anything.     *)
(*                                                                         *)
(* A URL is its host and whether it is sound: https, no user name, port    *)
(* 443.  A body is its length.  Method, headers and content type have no   *)
(* part here; what is refused for them ends as Lost.                       *)
(***************************************************************************)
EXTENDS Naturals

CONSTANTS
    Requests,
    Kind,         \* one of Kinds for each request
    Control,      \* the host of the platform's API
    MediaHosts, CoverHosts, OtherHosts,
    MaxRedirects, MaxBytes,
    Levels,       \* the qualities a preview is asked for in turn
    None

Hosts == {Control} \cup MediaHosts \cup CoverHosts \cup OtherHosts
Kinds == {"cover", "preview", "download", "api", "login"}

ASSUME OutboundAssumption ==
    /\ Kind \in [Requests -> Kinds]
    /\ MaxRedirects \in Nat /\ MaxBytes \in Nat \ {0} /\ Levels \in Nat \ {0}
    /\ None \notin Hosts \cup Nat

VARIABLES
    at,           \* "idle", "waiting" for an answer, "reading", "done", "failed"
    leg,          \* "resolve": with the cookie, to Control; "fetch": without
    home,         \* the host of the leg's allowlist
    level, hop,   \* the quality asked for, the redirects followed
    sent,         \* history: leg, host and cookie of what was sent
    granted,      \* expected_bytes of the grant
    declared,     \* Content-Length of the answer
    size,         \* bytes of the body so far
    file          \* length of download.part, None when it does not exist

netVars == <<at, leg, home, level, hop, sent, granted, declared, size, file>>

Urls == [host : Hosts, sound : BOOLEAN]
Sizes == 0..MaxBytes + 1
Message(l, h) == [leg |-> l, host |-> h, cookie |-> l = "resolve"]

Trusted(r) == IF Kind[r] = "cover" THEN CoverHosts ELSE MediaHosts
Running(r) == at[r] \in {"waiting", "reading"}

Set(f, r, v) == [f EXCEPT ![r] = v]

\* _validate_url, of either client, before anything is sent.
AnySound(r, u) == u.sound
Legal(r, u) == u.sound /\ u.host = home[r]

Send(r, l, h) ==
    /\ at' = Set(at, r, "waiting") /\ leg' = Set(leg, r, l)
    /\ sent' = Set(sent, r, sent[r] \cup {Message(l, h)})

\* The URL of a cover or of a media file is checked against the platform's
\* hosts, and the host found is the only one the client then allows.
Found(r, u) == u.sound /\ u.host \in Trusted(r)

-----------------------------------------------------------------------------
\* The API is asked with a cookie: for a list, a login, a preview or the grant of
\* a download, whose work directory is removed first (pipeline.py: process).
AskPlatform(r) ==
    /\ at[r] = "idle" /\ Kind[r] # "cover"
    /\ Send(r, "resolve", Control)
    /\ home' = Set(home, r, Control)
    /\ level' = Set(level, r, 1)
    /\ file' = Set(file, r, None)
    /\ UNCHANGED <<hop, granted, declared, size>>

AskCover(r, u) ==
    /\ at[r] = "idle" /\ Kind[r] = "cover"
    /\ \/ /\ Found(r, u)
          /\ Send(r, "fetch", u.host)
          /\ home' = Set(home, r, u.host)
       \/ /\ ~Found(r, u)
          /\ at' = Set(at, r, "failed")
          /\ UNCHANGED <<leg, sent, home>>
    /\ UNCHANGED <<level, hop, granted, declared, size, file>>

\* A redirect is followed at once, unless it is one too many or leads away.
\* The cookie jar client follows none.
OneTooMany(r) == Kind[r] # "login" /\ hop[r] <= MaxRedirects
MayFollow(r) == Kind[r] # "login" /\ hop[r] < MaxRedirects

Follow(r, u) ==
    /\ at[r] = "waiting" /\ MayFollow(r) /\ Legal(r, u)
    /\ Send(r, leg[r], u.host)
    /\ hop' = Set(hop, r, hop[r] + 1)
    /\ UNCHANGED <<home, level, granted, declared, size, file>>

\* _resolve_netease_media returns a URL and a size: the media is fetched. The
\* size a trial clip omits is made up.
Resolved(r, u, n) ==
    /\ at[r] = "waiting" /\ leg[r] = "resolve" /\ Kind[r] \in {"preview", "download"}
    /\ Found(r, u) /\ n > 0
    /\ Send(r, "fetch", u.host)
    /\ home' = Set(home, r, u.host)
    /\ hop' = Set(hop, r, 0)
    /\ granted' = Set(granted, r, n)
    /\ UNCHANGED <<level, declared, size, file>>

\* ... or has none at this level (LookupError, ValueError): open_preview tries
\* the next one. A failed request ends it.
SameLevel(r) == level[r]
NextLevel(r) == level[r] + 1

Declined(r) ==
    /\ at[r] = "waiting" /\ leg[r] = "resolve" /\ Kind[r] = "preview" /\ level[r] < Levels
    /\ Send(r, "resolve", Control)
    /\ level' = Set(level, r, NextLevel(r))
    /\ hop' = Set(hop, r, 0)
    /\ UNCHANGED <<home, granted, declared, size, file>>

\* An answer of the API that is the result itself.
Answered(r) ==
    /\ at[r] = "waiting" /\ Kind[r] \in {"api", "login"}
    /\ at' = Set(at, r, "done")
    /\ UNCHANGED <<leg, home, level, hop, sent, granted, declared, size, file>>

-----------------------------------------------------------------------------
(* The body: _read_limited for covers and previews, download for files. *)

\* A download must be of the granted length; a preview may be the beginning of
\* something longer.
Acceptable(r, d) ==
    /\ Kind[r] = "download" => d = granted[r]
    /\ Kind[r] # "preview" => d \in (0..MaxBytes) \cup {None}

Accepted(r, d) ==
    /\ at[r] = "waiting" /\ leg[r] = "fetch" /\ Acceptable(r, d)
    /\ at' = Set(at, r, "reading")
    /\ declared' = Set(declared, r, d)
    /\ file' = IF Kind[r] = "download" THEN Set(file, r, 0) ELSE file
    /\ UNCHANGED <<leg, home, level, hop, sent, granted, size>>

Chunk(r, n) ==
    /\ at[r] = "reading" /\ n > 0 /\ size[r] + n <= MaxBytes
    /\ size' = Set(size, r, size[r] + n)
    /\ file' = IF Kind[r] = "download" THEN Set(file, r, size[r] + n) ELSE file
    /\ UNCHANGED <<at, leg, home, level, hop, sent, granted, declared>>

\* allow_partial: what does not fit any more is cut off.
CutOff(r) ==
    /\ at[r] = "reading" /\ Kind[r] = "preview"
    /\ at' = Set(at, r, "done")
    /\ size' = Set(size, r, MaxBytes)
    /\ UNCHANGED <<leg, home, level, hop, sent, granted, declared, file>>

\* The stream ends. Nothing is empty but a cover, which is then no image; a
\* download is as long as it was declared.
NotEmpty(r) == Kind[r] = "cover" \/ size[r] > 0
Complete(r) == NotEmpty(r) /\ (Kind[r] = "download" => size[r] = declared[r])

Ended(r) ==
    /\ at[r] = "reading" /\ Complete(r)
    /\ at' = Set(at, r, "done")
    /\ UNCHANGED <<leg, home, level, hop, sent, granted, declared, size, file>>

\* Everything else: an error status, a wrong length, an illegal redirect or one
\* too many, a broken connection, a timeout, an expired grant, a cancelled task.
\* The partial file is unlinked.
LeaveFile(r) == file
Unlinked(r) == Set(file, r, None)

Lost(r) ==
    /\ Running(r)
    /\ at' = Set(at, r, "failed")
    /\ file' = Unlinked(r)
    /\ UNCHANGED <<leg, home, level, hop, sent, granted, declared, size>>

-----------------------------------------------------------------------------
\* The caller is through with these requests; the work directory goes as well.
Cleared(R) ==
    /\ at' = [r \in Requests |-> IF r \in R THEN "idle" ELSE at[r]]
    /\ leg' = [r \in Requests |-> IF r \in R THEN "fetch" ELSE leg[r]]
    /\ home' = [r \in Requests |-> IF r \in R THEN None ELSE home[r]]
    /\ level' = [r \in Requests |-> IF r \in R THEN 0 ELSE level[r]]
    /\ hop' = [r \in Requests |-> IF r \in R THEN 0 ELSE hop[r]]
    /\ sent' = [r \in Requests |-> IF r \in R THEN {} ELSE sent[r]]
    /\ granted' = [r \in Requests |-> IF r \in R THEN None ELSE granted[r]]
    /\ declared' = [r \in Requests |-> IF r \in R THEN None ELSE declared[r]]
    /\ size' = [r \in Requests |-> IF r \in R THEN 0 ELSE size[r]]

Forget(r) ==
    /\ at[r] \in {"done", "failed"}
    /\ Cleared({r})
    /\ file' = Set(file, r, None)

\* The process is killed: a partial file stays until its job runs again.
NetCrash == Cleared(Requests) /\ UNCHANGED file

NetInit ==
    /\ at = [r \in Requests |-> "idle"] /\ leg = [r \in Requests |-> "fetch"]
    /\ home = [r \in Requests |-> None] /\ level = [r \in Requests |-> 0]
    /\ hop = [r \in Requests |-> 0] /\ sent = [r \in Requests |-> {}]
    /\ granted = [r \in Requests |-> None] /\ declared = [r \in Requests |-> None]
    /\ size = [r \in Requests |-> 0] /\ file = [r \in Requests |-> None]

\* What a request on its way does next.
NetStep(r) ==
    /\ Running(r)
    /\ \/ \E u \in Urls : Follow(r, u) \/ \E n \in Sizes : Resolved(r, u, n)
       \/ Declined(r) \/ Answered(r) \/ CutOff(r) \/ Ended(r) \/ Lost(r)
       \/ \E d \in Sizes \cup {None} : Accepted(r, d)
       \/ \E n \in 1..MaxBytes : Chunk(r, n)

NetNext ==
    \/ \E r \in Requests :
          AskPlatform(r) \/ NetStep(r) \/ Forget(r) \/ \E u \in Urls : AskCover(r, u)
    \/ NetCrash

NetSpec == NetInit /\ [][NetNext]_netVars

\* Each read has a timeout, so a request on its way goes on or is given up.
NetFairness == \A r \in Requests : WF_netVars(NetStep(r))

-----------------------------------------------------------------------------
(* Properties. *)

\* Every variable has its type.
NetTypeOK ==
    /\ at \in [Requests -> {"idle", "waiting", "reading", "done", "failed"}]
    /\ leg \in [Requests -> {"resolve", "fetch"}]
    /\ home \in [Requests -> Hosts \cup {None}]
    /\ level \in [Requests -> 0..Levels] /\ hop \in [Requests -> 0..MaxRedirects]
    /\ sent \in [Requests -> SUBSET [leg : {"resolve", "fetch"}, host : Hosts, cookie : BOOLEAN]]
    /\ granted \in [Requests -> Sizes \cup {None}]
    /\ declared \in [Requests -> Sizes \cup {None}]
    /\ size \in [Requests -> 0..MaxBytes]
    /\ file \in [Requests -> (0..MaxBytes) \cup {None}]

\* Wherever the redirects and the platform's own answers point, the cookie goes
\* to the control host only, media and covers are fetched from the platform's
\* hosts without it, and neither leg leaves the host it began with.
KeepsToItsHosts ==
    \A r \in Requests : \A x \in sent[r] :
        /\ x.cookie => x.host = Control
        /\ x.leg = "fetch" => x.host \in Trusted(r) /\ ~x.cookie
        /\ \A y \in sent[r] : x.leg = y.leg => x.host = y.host

\* A request is a transfer: a file is left only by one that is done, and has the
\* length that was granted.
T == INSTANCE Transfer WITH
         phase <- [r \in Requests |-> IF Running(r) THEN "running" ELSE at[r]],
         promised <- granted,
         saved <- [r \in Requests |-> IF at[r] \in {"done", "failed"} THEN file[r] ELSE None]

Transfers == T!TransferSpec

\* Every request ends, however long the server goes on redirecting or sending.
RequestsEnd == \A r \in Requests : Running(r) ~> ~Running(r)
=============================================================================
