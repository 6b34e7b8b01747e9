------------------------------- MODULE Session -------------------------------
(***************************************************************************)
(* A user's session: loginUser and refreshSession of auth.service on the   *)
(* server, and authenticatedFetch of frontend/lib/api in one browser.      *)
(*                                                                         *)
(* A call reads the pair of tokens when it starts.  When it is told that   *)
(* its access token is no longer good it asks for a new pair with the      *)
(* refresh token it has read, stores it, and sends its request once more.  *)
(* refreshSession finds the row of the token, deletes it and creates the   *)
(* next in three statements; calls of one page do this side by side.       *)
(*                                                                         *)
(* A pair has one number: its two tokens are minted, sent and stored       *)
(* together.  An answer that comes after the 60 seconds is one that is     *)
(* lost.  To be told and to find the row is one step: had the row gone in  *)
(* between, the delete would fail as the find does.  Refresh tokens do not *)
(* run out here (7 days): to the page that is a session which was cut.     *)
(* The page that makes a call says what the server does for it.            *)
(***************************************************************************)
EXTENDS Integers, FiniteSets

CONSTANTS
    Call,       \* api() calls of the browser that may be under way together
    MaxLogins,  \* bound
    MaxExpiries \* bound: access tokens that run out

ASSUME SessionAssumption == MaxLogins \in Nat \ {0} /\ MaxExpiries \in Nat

VARIABLES
    tokens,  \* RefreshToken
    fresh,   \* pairs whose access token has not run out
    issued,  \* pairs minted so far
    logins,
    store,   \* localStorage
    call,    \* the calls under way
    cut      \* history: pairs whose renewal stopped halfway, or was not told

sessionVars == <<tokens, fresh, issued, logins, store, call, cut>>

Pair == 1..(MaxLogins + MaxExpiries)

Free   == [step |-> "free"]
Failed == [step |-> "failed"]

SessionTypeOK ==
    /\ tokens \subseteq Pair /\ fresh \subseteq Pair
    /\ issued \in 0..(MaxLogins + MaxExpiries)
    /\ logins \in 0..MaxLogins
    /\ store \in Pair
    /\ cut \subseteq Pair
    /\ \A c \in Call : call[c] \in {Free, Failed} \/ call[c].pair \in Pair

\* The page is opened by a user who has logged in.
SessionInit ==
    /\ tokens = {1} /\ fresh = {1} /\ issued = 1 /\ logins = 1 /\ store = 1
    /\ call = [c \in Call |-> Free]
    /\ cut = {}

-----------------------------------------------------------------------------

\* Every call fails, until the user logs in again.
SignedOut == store \notin fresh \cup tokens

\* The user logs in again; calls of the page may still be under way.
Login ==
    /\ logins < MaxLogins /\ SignedOut
    /\ logins' = logins + 1
    /\ issued' = issued + 1
    /\ tokens' = tokens \cup {issued'} /\ fresh' = fresh \cup {issued'}
    /\ store' = issued'
    /\ UNCHANGED <<call, cut>>

\* JWT_ACCESS_EXPIRES: 15 minutes.
AccessExpires(p) ==
    /\ p \in fresh
    /\ Cardinality((1..issued) \ fresh) < MaxExpiries
    /\ fresh' = fresh \ {p}
    /\ UNCHANGED <<tokens, issued, logins, store, call, cut>>

\* A call starts.
Sent(about) == [step |-> "sent", pair |-> store, new |-> 0, about |-> about]

\* The pair is of no more use.
Answered(c, about) == [call[c] EXCEPT !.step = "answered", !.pair = 1, !.new = 0,
                                      !.about = about]

At(c, step)     == call[c].step = step
Goes(c, step)   == call' = [call EXCEPT ![c].step = step]
Fails(c)        == call' = [call EXCEPT ![c] = Failed]

\* requireAuth lets the request through.
Authorized(c) ==
    call[c].step \in {"sent", "again"} /\ call[c].pair \in fresh

\* 401: the first time, the client asks for a new pair, and findFirst looks
\* for the row of the refresh token (INVALID_REFRESH otherwise).
Unauthorized(c) ==
    /\ call[c].step \in {"sent", "again"} /\ call[c].pair \notin fresh
    /\ IF At(c, "sent") /\ call[c].pair \in tokens THEN Goes(c, "found") ELSE Fails(c)
    /\ UNCHANGED <<tokens, fresh, issued, logins, store, cut>>

\* Mutant: deleteMany, which does not mind that the row is gone.
DeleteRowIfAny(c) ==
    /\ At(c, "found")
    /\ tokens' = tokens \ {call[c].pair}
    /\ Goes(c, "deleted")
    /\ UNCHANGED <<fresh, issued, logins, store, cut>>

\* The delete fails (P2025) when another call has deleted the row.
DeleteRow(c) ==
    /\ At(c, "found")
    /\ tokens' = tokens \ {call[c].pair}
    /\ IF call[c].pair \in tokens THEN Goes(c, "deleted") ELSE Fails(c)
    /\ UNCHANGED <<fresh, issued, logins, store, cut>>

CreateRow(c) ==
    /\ At(c, "deleted")
    /\ issued' = issued + 1
    /\ tokens' = tokens \cup {issued'} /\ fresh' = fresh \cup {issued'}
    /\ call' = [call EXCEPT ![c].step = "renewed", ![c].new = issued']
    /\ UNCHANGED <<logins, store, cut>>

\* The client stores the pair and sends its request again.
StorePair(c) ==
    /\ At(c, "renewed")
    /\ store' = call[c].new
    /\ call' = [call EXCEPT ![c].step = "again", ![c].pair = store', ![c].new = 0]
    /\ UNCHANGED <<tokens, fresh, issued, logins, cut>>

Underway ==
    {"sent", "again", "found", "deleted", "renewed", "deciding", "answered"}

\* Mutant: a call whose answer does not come is sent again.
SendsAgain(c) ==
    /\ call[c].step \in Underway
    /\ IF At(c, "answered")
       THEN call' = [call EXCEPT ![c].step = "sent"] ELSE Fails(c)
    /\ cut' = IF At(c, "deleted") \/ At(c, "renewed") THEN cut \cup {call[c].pair} ELSE cut
    /\ UNCHANGED <<tokens, fresh, issued, logins, store>>

\* The network loses a request or its answer, the server stops, or the 60
\* seconds are over.
Loses(c) ==
    /\ call[c].step \in Underway
    /\ Fails(c)
    /\ cut' = IF At(c, "deleted") \/ At(c, "renewed") THEN cut \cup {call[c].pair} ELSE cut
    /\ UNCHANGED <<tokens, fresh, issued, logins, store>>

\* What a call does of itself once it is sent, until the server's handler.
Proceeds(c) ==
    Unauthorized(c) \/ DeleteRow(c) \/ CreateRow(c) \/ StorePair(c)

SessionStep ==
    \/ Login
    \/ \E p \in Pair : AccessExpires(p)
    \/ \E c \in Call : Proceeds(c) \/ Loses(c)

-----------------------------------------------------------------------------
(* Properties. *)

\* Rotation hands a session on and never doubles it, however many calls of
\* the page find their access token out of date at the same time: there are
\* at most as many sessions as there were logins.
OneSessionPerLogin ==
    Cardinality(tokens) + Cardinality({c \in Call : At(c, "deleted")}) <= logins

\* The browser's refresh token is good unless it ran out, is being renewed
\* right now, or a renewal of it was cut short: calls that renew side by side
\* never leave the browser with a pair that one of them has used up.
StoredPairLives ==
    \/ store \in tokens \cup cut
    \/ \E c \in Call : call[c].step \in {"deleted", "renewed"} /\ call[c].pair = store

=============================================================================
