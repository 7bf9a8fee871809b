------------------------------- MODULE ApiKeys -------------------------------
(***************************************************************************)
(* Who a request is from and whether it still has a request left (auth.py:  *)
(* AuthService), as functions of the database.  It is                       *)
(*   users   member -> NoRow or [active, rpm, rpd],                         *)
(*   keys    key -> NoRow or [user, kind, active, cached],                  *)
(*   log     the requests that were counted, <<user, time>>.                *)
(* A request looks its key up, may ask the member service, and then writes  *)
(* in a transaction: Look and Commit, between which others may write.       *)
(* Each transaction locks the rows it reads and is one step here.  site     *)
(* gives the member a key belongs to at the member service, or why there is *)
(* none; settings are [dev, devUser, rpm, rpd, cacheFor], where dev is the  *)
(* development key.                                                         *)
(***************************************************************************)
EXTENDS Integers, Sequences, SequencesExt

CONSTANTS Minute, Day

NoRow == [active |-> FALSE]
Unidentified == [status |-> "not identified"]
Inactive == [status |-> "switched off"]
Unavailable == [status |-> "unavailable"]
LimitReached == [status |-> "limit"]
Anonymous == [status |-> "ok", user |-> "nobody"]

-----------------------------------------------------------------------------
(* The member service. *)

\* fetch_yes24_user_info and _user_fields: an answer that is no answer is the
\* service's fault, one without a member the key's.
Member(site, key) ==
    CASE site[key] \in {"unknown", "no number"} -> Unidentified
      [] site[key] = "down" -> Unavailable
      [] OTHER -> [status |-> "ok", user |-> site[key]]

KindOf(settings, key) == IF key = settings.dev THEN "dev" ELSE "member"

-----------------------------------------------------------------------------
(* The transactions. *)

\* _lock_identity.
Usable(db, user, key) ==
    /\ db.users[user] # NoRow /\ db.users[user].active
    /\ db.keys[key] # NoRow /\ db.keys[key].user = user /\ db.keys[key].active

\* register: the rows that are missing are made; a refusal takes them back.
Register(db, settings, key, user, now) ==
    LET kind == KindOf(settings, key)
        userRow == IF db.users[user] # NoRow THEN db.users[user]
                   ELSE [active |-> TRUE, rpm |-> settings.rpm, rpd |-> settings.rpd]
        keyRow == IF db.keys[key] # NoRow THEN db.keys[key]
                  ELSE [user |-> user, kind |-> kind, active |-> TRUE, cached |-> now]
        taken == keyRow.user # user \/ keyRow.kind # kind
    IN  CASE ~userRow.active -> [db |-> db, answer |-> Inactive]
          [] userRow.active /\ taken -> [db |-> db, answer |-> Unidentified]
          [] userRow.active /\ ~taken /\ ~keyRow.active -> [db |-> db, answer |-> Inactive]
          [] OTHER -> [db |-> [db EXCEPT !.users[user] = userRow, !.keys[key] = keyRow],
                       answer |-> [status |-> "ok", user |-> user]]

\* refresh.
Refresh(db, key, user, now) ==
    IF Usable(db, user, key)
    THEN [db |-> [db EXCEPT !.keys[key].cached = now], answer |-> [status |-> "ok", user |-> user]]
    ELSE [db |-> db, answer |-> Inactive]

-----------------------------------------------------------------------------
(* authenticate. *)

Stale(row, settings, now) == row.cached < now - settings.cacheFor

\* What is left to be done about a key once it has been looked up: nothing, if the
\* answer is there; otherwise a transaction for the member it belongs to.
Look(db, settings, site, key, now) ==
    LET row == db.keys[key]
        told == Member(site, key)
        asked(next) == IF told.status = "ok" THEN [told EXCEPT !.status = next] ELSE told
    IN  CASE row = NoRow /\ KindOf(settings, key) = "dev" ->
               [status |-> "register", user |-> settings.devUser]
          [] row = NoRow /\ KindOf(settings, key) = "member" -> asked("register")
          [] OTHER ->
             CASE ~db.users[row.user].active \/ ~row.active -> Inactive
               [] row.kind = "dev" /\ (key # settings.dev \/ row.user # settings.devUser) ->
                    Unidentified
               [] row.kind = "member" /\ Stale(row, settings, now) ->
                    IF told.status = "ok" /\ told.user # row.user THEN Unidentified
                    ELSE asked("refresh")
               [] OTHER -> [status |-> "ok", user |-> row.user]

Commit(db, settings, key, pending, now) ==
    CASE pending.status = "register" -> Register(db, settings, key, pending.user, now)
      [] pending.status = "refresh" -> Refresh(db, key, pending.user, now)
      [] OTHER -> [db |-> db, answer |-> pending]

-----------------------------------------------------------------------------
(* consume_request: the identity is checked again under the lock of the user's *)
(* row, which all of his keys share.                                           *)

Within(db, user, now, span) == Len(SelectSeq(db.log, LAMBDA e : e[1] = user /\ e[2] > now - span))

ConsumeRequest(db, key, user, now) ==
    IF ~Usable(db, user, key) THEN [db |-> db, answer |-> Inactive]
    ELSE IF \/ Within(db, user, now, Minute) >= db.users[user].rpm
            \/ Within(db, user, now, Day) >= db.users[user].rpd
    THEN [db |-> db, answer |-> LimitReached]
    ELSE [db |-> [db EXCEPT !.log = Append(@, <<user, now>>)],
          answer |-> [status |-> "ok", user |-> user]]

\* get_authenticated_user and enforce_rate_limit: without a key, or without a
\* database, a request has no user and is not counted.
EnforceRateLimit(db, enabled, key, user, now) ==
    IF key = "" \/ ~enabled THEN [db |-> db, answer |-> Anonymous]
    ELSE ConsumeRequest(db, key, user, now)

=============================================================================
