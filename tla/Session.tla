------------------------------- MODULE Session -------------------------------
(***************************************************************************)
(* Who is logged in: the ["me"] query and the token of useAuth.ts, the     *)
(* guards of App.tsx and Layout.tsx, LoginPage.tsx and ProfilePage.tsx,    *)
(* and the handlers they call (src/app/api/routes/auth.py, api/deps.py).   *)
(*                                                                         *)
(* One tab is modelled in full.  The other tabs of the browser share its   *)
(* localStorage, hence the token, and nothing else: they are present as    *)
(* the tokens they write (OtherTab).  Names, menus and the words of the    *)
(* forms are left out.                                                     *)
(***************************************************************************)
EXTENDS Mutations, FiniteSets

CONSTANTS
    Users,          \* ids of users
    MaxElsewhere,   \* bound: steps of other tabs and other sessions
    MaxGestures     \* bound: what the user does, and refetches

VARIABLES server, cache, page

vars == <<server, cache, page, calls>>

Admin == CHOOSE u \in Users : TRUE

(***************************************************************************)
(* The server.  A token names its user and the token_version it was made   *)
(* for.  dead[u] (history) are the versions a change of u's password was   *)
(* to end; overlapped are the users two of whose changes overlapped.       *)
(***************************************************************************)
Token(u, v) == [owner |-> u, version |-> v]

(* get_current_user *)
Accepted(t) == t # Null /\ server.version[t.owner] = t.version

(* A bug: the version is left as it is.                                    *)
NextVersionSame(v) == v
NextVersion(v) == v + 1

Changing(u) ==
    {i \in InFlight : /\ calls[i].op = "save" /\ calls[i].at = "read"
                      /\ calls[i].arg.token.owner = u /\ calls[i].arg.password}

(* token_version becomes w.  i is the request (0: an administrator's).     *)
SetPassword(u, w, i) ==
    server' = [server EXCEPT !.version[u] = w, !.issued[u] = @ \cup {w},
                             !.dead[u] = @ \cup server.issued[u],
                             !.overlapped = IF Changing(u) \subseteq {i} THEN @
                                            ELSE @ \cup {u}]

(* Whoever may not log in is told so, like a request that is lost.         *)
ServeLogin(i) ==
    LET u == calls[i].arg IN
    /\ calls[i].op = "login" /\ calls[i].at = "sent"
    /\ Answer(i, "ok", Token(u, server.version[u]))
    /\ UNCHANGED <<server, cache, page>>

(* patch_me: the user is loaded by get_current_user ...                    *)
ReadMe(i) ==
    LET t == calls[i].arg.token IN
    /\ calls[i].op = "save" /\ calls[i].at = "sent"
    /\ IF Accepted(t) THEN Answer(i, "read", t.version)
                      ELSE Answer(i, "error", Null)
    /\ UNCHANGED <<server, cache, page>>

(* ... and committed later, with the version counted from what was loaded. *)
WriteMe(i) ==
    LET a == calls[i].arg
        u == a.token.owner
        w == NextVersion(calls[i].out)
    IN
    /\ calls[i].op = "save" /\ calls[i].at = "read"
    /\ IF a.password
       THEN SetPassword(u, w, i) /\ Answer(i, "ok", Token(u, w))
       ELSE UNCHANGED server /\ Answer(i, "ok", Null)
    /\ UNCHANGED <<cache, page>>

(* An administrator sets a password (update_user in services/users.py).    *)
Elsewhere(u) ==
    /\ cache.elsewhere < MaxElsewhere
    /\ SetPassword(u, server.version[u] + 1, 0)
    /\ cache' = [cache EXCEPT !.elsewhere = @ + 1]
    /\ UNCHANGED <<page, calls>>

(***************************************************************************)
(* The ["me"] query.  It is not retried, and keeps its data when a later   *)
(* fetch fails.  fetch is the token of the fetch under way.                *)
(***************************************************************************)
(* A mounting useAuth fetches if it is enabled and has no data.            *)
OnMount ==
    IF cache.me = Null /\ cache.fetch = Null THEN cache.token ELSE cache.fetch

(* invalidateQueries(["me"]) fetches again.  It cancels a fetch under way  *)
(* if the query has data; if not, that fetch, with the token it was sent   *)
(* with, is taken for the new one.  (If it was disabled for want of a      *)
(* token, the next render enables it.)                                     *)
(* A bug: the login does not invalidate.                                   *)
InvalidatedNot(token) == cache.fetch
FirstFetch == cache.me = Null /\ cache.fetch # Null
Invalidated(token) == IF FirstFetch THEN cache.fetch ELSE token

Gesture(p) ==
    /\ page.gestures < MaxGestures
    /\ page' = [p EXCEPT !.gestures = page.gestures + 1]

(* The window gets the focus after staleTime.                              *)
Refetch ==
    /\ cache.token # Null /\ cache.fetch = Null
    /\ cache' = [cache EXCEPT !.fetch = cache.token]
    /\ Gesture(page)
    /\ UNCHANGED <<server, calls>>

(* Whose token it is never changes, only whether it is accepted, so that   *)
(* serving a fetch and showing its answer are one step.  strays (history)  *)
(* is set by what may part the tab from its token (a failed fetch, another *)
(* tab's token, a login over an older fetch, a save answered too late) and *)
(* cleared by a fetch that was sent with the token at hand.                *)
FetchAnswered ==
    LET token == cache.fetch IN
    /\ Accepted(token)
    /\ cache' = [cache EXCEPT !.fetch = Null, !.me = token.owner]
    /\ page' = [page EXCEPT !.strays = @ /\ token # cache.token]
    /\ UNCHANGED <<server, calls>>

(* sure (history): the last login is to lead into the console.             *)
FetchRefusedOrLost ==
    /\ cache.fetch # Null
    /\ cache' = [cache EXCEPT !.fetch = Null]
    /\ page' = [page EXCEPT !.strays = TRUE,
                            !.sure = @ /\ cache.fetch # cache.token]
    /\ UNCHANGED <<server, calls>>

(***************************************************************************)
(* The routes.  RequireAuth shows nothing while ["me"] is loading and      *)
(* leads to /login when there is no user; RequireAdmin leads those who are *)
(* not administrators to "/".                                              *)
(***************************************************************************)
Blank == [route |-> "home", sent |-> 0, strays |-> FALSE, sure |-> FALSE,
          gestures |-> 0]

(* A bug: the guard does not wait.                                         *)
isLoadingNever == FALSE
isLoading == cache.me = Null /\ cache.fetch # Null

RequireAuth ==
    /\ page.route # "login" /\ ~isLoading /\ cache.me = Null
    /\ page' = [page EXCEPT !.route = "login", !.sent = 0, !.sure = FALSE]
    /\ cache' = [cache EXCEPT !.fetch = OnMount]
    /\ UNCHANGED <<server, calls>>

RequireAdmin ==
    /\ page.route = "admin" /\ cache.me \notin {Null, Admin}
    /\ page' = [page EXCEPT !.route = "home"]
    /\ UNCHANGED <<server, cache, calls>>

(* A link of the menu (Layout shows those of administrators to them only), *)
(* or the browser's buttons.                                               *)
Go(route) ==
    /\ page.route # route
    /\ route \in {"profile", "admin"} => cache.me # Null
    /\ Gesture([page EXCEPT !.route = route, !.sent = 0])
    /\ cache' = [cache EXCEPT !.fetch = OnMount]
    /\ UNCHANGED <<server, calls>>

(* Loading the application anew: the cache and what it waits for are gone. *)
Reload ==
    /\ Gesture(Blank)
    /\ cache' = [cache EXCEPT !.me = Null, !.fetch = cache.token]
    /\ Abandon
    /\ UNCHANGED server

(***************************************************************************)
(* Logging in and out, and the profile.                                    *)
(***************************************************************************)
(* Another tab logs somebody in, or out.  This one is not told.            *)
OtherTab(token) ==
    /\ cache.elsewhere < MaxElsewhere /\ token # cache.token
    /\ cache' = [cache EXCEPT !.token = token, !.elsewhere = @ + 1]
    /\ page' = [page EXCEPT !.strays = TRUE, !.sure = FALSE]
    /\ UNCHANGED <<server, calls>>

(* sent is the request of the mounted LoginPage or ProfilePage: leaving    *)
(* the route and coming back forgets it, and the button is enabled again.  *)
isSubmitting == page.sent # 0 /\ calls[page.sent].at # "done"

handleLogin(u) ==
    /\ page.route = "login" /\ ~isSubmitting
    /\ Send("login", u)
    /\ Gesture([page EXCEPT !.sent = Len(calls) + 1])
    /\ UNCHANGED <<server, cache>>

(* setItem, invalidateQueries, navigate("/").                              *)
LoginAnswered(i) ==
    /\ calls[i].op = "login" /\ calls[i].at = "ok"
    /\ IF calls[i].here
       THEN /\ cache' = [cache EXCEPT !.token = calls[i].out,
                                      !.fetch = Invalidated(calls[i].out)]
            /\ page' = [page EXCEPT !.route = "home", !.sent = 0,
                                    !.strays = FirstFetch, !.sure = ~FirstFetch]
       ELSE UNCHANGED <<cache, page>>
    /\ Settled(i)
    /\ UNCHANGED server

(* removeItem, clear, and a hard navigation to /login.                     *)
logout ==
    /\ page.route # "login" /\ cache.me # Null
    /\ cache' = [cache EXCEPT !.token = Null, !.me = Null, !.fetch = Null]
    /\ Gesture([Blank EXCEPT !.route = "login"])
    /\ Abandon
    /\ UNCHANGED server

handleSubmit(password) ==
    /\ page.route = "profile" /\ cache.me # Null /\ cache.token # Null
    /\ ~isSubmitting
    /\ Send("save", [token |-> cache.token, password |-> password])
    /\ Gesture([page EXCEPT !.sent = Len(calls) + 1])
    /\ UNCHANGED <<server, cache>>

(* onSuccess belongs to the mutation, not to the page: it runs even when   *)
(* the page is gone.  It stores the new token and sets ["me"], without     *)
(* stopping a fetch that is under way.                                     *)
SaveAnswered(i) ==
    LET u == calls[i].arg.token.owner
        token == IF calls[i].out = Null THEN cache.token ELSE calls[i].out
    IN
    /\ calls[i].op = "save" /\ calls[i].at = "ok"
    /\ IF calls[i].here
       THEN /\ cache' = [cache EXCEPT !.token = token, !.me = u]
            /\ page' = [page EXCEPT !.strays =
                           @ \/ cache.token = Null \/ cache.token.owner # u]
       ELSE UNCHANGED <<cache, page>>
    /\ Settled(i)
    /\ UNCHANGED server

Refused(i) ==
    /\ calls[i].at = "error"
    /\ Settled(i)
    /\ UNCHANGED <<server, cache, page>>

lose(i) ==
    /\ Lose(i)
    /\ UNCHANGED <<server, cache, page>>

(* The browser may still hold a token that is no longer accepted.          *)
Init ==
    /\ server = [version |-> [u \in Users |-> 2], issued |-> [u \in Users |-> {1, 2}],
                 dead |-> [u \in Users |-> {1}], overlapped |-> {}]
    /\ calls = <<>>
    /\ page = Blank
    /\ \E v \in {1, 2} :
          cache = [token |-> Token(Admin, v), me |-> Null, fetch |-> Token(Admin, v),
                   elsewhere |-> 0]

Next ==
    \/ \E u \in Users : Elsewhere(u) \/ handleLogin(u)
    \/ \E token \in {Null} \cup {Token(u, server.version[u]) : u \in Users} :
          OtherTab(token)
    \/ Refetch \/ FetchAnswered \/ FetchRefusedOrLost
    \/ RequireAuth \/ RequireAdmin \/ Reload \/ logout
    \/ \E route \in {"login", "home", "profile", "admin"} : Go(route)
    \/ \E password \in BOOLEAN : handleSubmit(password)
    \/ \E i \in InFlight :
          \/ ServeLogin(i) \/ ReadMe(i) \/ WriteMe(i)
          \/ LoginAnswered(i) \/ SaveAnswered(i) \/ Refused(i) \/ lose(i)

Spec == Init /\ [][Next]_vars

(***************************************************************************)
(* Properties.                                                             *)
(***************************************************************************)
(* A change of password ends every session that existed before it, for     *)
(* good: no token handed out earlier is accepted again.  Only when two     *)
(* changes of one user's password overlap may the second leave, or bring   *)
(* back, a version the first had handed out (both count from one value).   *)
PasswordEndsSessions ==
    \A u \in Users \ server.overlapped : server.version[u] \notin server.dead[u]

(* With no fetch under way, a tab shows the user whose token its requests  *)
(* carry.  Four things may part them, until a fetch with the token at hand *)
(* is answered: another tab wrote the token; a fetch failed (the old data  *)
(* stay); a save was answered when the token was already somebody else's;  *)
(* or a login was answered while a first fetch with an older token was     *)
(* under way, which the invalidation does not replace: the tab then shows  *)
(* the user of before.                                                     *)
TabShowsTokenOwner ==
    /\ cache.fetch = Null /\ cache.me # Null /\ ~page.strays
    => cache.token # Null /\ cache.me = cache.token.owner

(* A tab that has logged in is not sent back to the login screen, unless   *)
(* the ["me"] fetch with the new token fails, another tab wrote the token, *)
(* or a first fetch with an older token was under way when the login was   *)
(* answered (an invalidation does not replace it).                         *)
LoginEnters ==
    page.sure /\ page'.gestures = page.gestures
    => ~(page.route # "login" /\ page'.route = "login")
=============================================================================
