--------------------------- MODULE MCLoginAttempts ---------------------------
(* Three requests, one failure allowed; and the members' keys for all
   short orders of what two requests and an administrator do. *)
EXTENDS LoginAttempts, Sequences, FiniteSets, TLC

Symmetric == Permutations(Requests)

-----------------------------------------------------------------------------

K == INSTANCE ApiKeys WITH Minute <- 1, Day <- 3

\* Two members, of whom ann has two keys, and the development key.
TheKeys == {"a1", "a2", "dev"}
TheSettings == [dev |-> "dev", devUser |-> "staff", rpm |-> 1, rpd |-> 2, cacheFor |-> 1]
TheSite == [x \in TheKeys |-> "ann"]
Members == {"ann", "bob", "staff"}
EmptyDb == [users |-> [u \in Members |-> K!NoRow], keys |-> [x \in TheKeys |-> K!NoRow],
            log |-> << >>]

Unasked == [status |-> "new"]

\* Two requests: the second has the key that `second` says.
Fresh(second) == [db |-> EmptyDb, site |-> TheSite, at |-> 0,
                  key |-> <<"a1", second>>, said |-> <<Unasked, Unasked>>]
Steps == {"look 1", "look 2", "commit 1", "commit 2", "consume 1", "consume 2",
          "other member", "member off", "key off", "wait"}
NumberOf(what) == IF what \in {"look 1", "commit 1", "consume 1"} THEN 1 ELSE 2
Held(c, j) == c.said[j] # Unasked

Write(c, j, result) == [c EXCEPT !.db = result.db, !.said[j] = result.answer]
Happens(c, what) ==
    LET j == NumberOf(what)
    IN  CASE what \in {"look 1", "look 2"} ->
               [c EXCEPT !.said[j] = K!Look(c.db, TheSettings, c.site, c.key[j], c.at)]
          [] what \in {"commit 1", "commit 2"} /\ Held(c, j) ->
               Write(c, j, K!Commit(c.db, TheSettings, c.key[j], c.said[j], c.at))
          [] what \in {"consume 1", "consume 2"} /\ Held(c, j) /\ c.said[j].status = "ok" ->
               Write(c, j, K!EnforceRateLimit(c.db, TRUE, c.key[j], c.said[j].user, c.at))
          [] what = "other member" -> [c EXCEPT !.site["a1"] = "bob"]
          [] what = "member off" /\ c.db.users["ann"] # K!NoRow ->
               [c EXCEPT !.db.users["ann"].active = FALSE]
          [] what = "key off" /\ c.db.keys["a1"] # K!NoRow ->
               [c EXCEPT !.db.keys["a1"].active = FALSE]
          [] what = "wait" -> [c EXCEPT !.at = @ + 1]
          [] OTHER -> c

\* All the states that some order of n steps comes to, with the one before.
Reached[n \in 0..7] ==
    IF n = 0 THEN {Fresh(x) : x \in TheKeys}
    ELSE LET before == Reached[n - 1]
         IN  before \cup {Happens(c, what) : c \in before, what \in Steps}
Served(c, j) == Held(c, j) /\ c.said[j].status = "ok"

\* auth.py:246: two requests with the same key are never taken for two members, and
\* a key never changes hands, also when the member service names another member
\* between two questions; the development key is of its own user only.
ASSUME KeysStayWithTheirMember ==
    \A c \in Reached[7] :
        /\ c.key[1] = c.key[2] /\ Served(c, 1) /\ Served(c, 2) =>
               c.said[1].user = c.said[2].user
        /\ \A j \in 1..2 : Served(c, j) => c.db.keys[c.key[j]].user = c.said[j].user
        /\ \A j \in 1..2 : Served(c, j) => (c.said[j].user = "staff" <=> c.key[j] = "dev")

\* auth.py:234: no row is made for a request that is refused: whoever has a row has
\* a key, and whatever has been counted was of a member with a row.
ASSUME RefusalsLeaveNothing ==
    \A c \in Reached[7] :
        /\ \A u \in Members : c.db.users[u] # K!NoRow =>
               \E x \in TheKeys : c.db.keys[x] # K!NoRow /\ c.db.keys[x].user = u
        /\ \A i \in DOMAIN c.db.log : c.db.users[c.db.log[i][1]] # K!NoRow

\* auth.py:262: however the requests of a member's keys interleave, no minute and no
\* day counts more of them than the limit, and none after he or the key was
\* switched off, also for a request that had been let in before.
ASSUME LimitsHold ==
    \A c \in Reached[7] :
        /\ \A u \in Members, t \in 0..7 :
             /\ Cardinality({i \in DOMAIN c.db.log : /\ c.db.log[i][1] = u
                                                     /\ c.db.log[i][2] = t}) <= 1
             /\ Cardinality({i \in DOMAIN c.db.log : /\ c.db.log[i][1] = u
                                                     /\ c.db.log[i][2] \in t..t + 2}) <= 2
        /\ \A what \in {"consume 1", "consume 2"} :
             LET done == Happens(c, what)
                 j == NumberOf(what)
             IN  done.db.log # c.db.log => K!Usable(c.db, c.said[j].user, c.key[j])

=============================================================================
