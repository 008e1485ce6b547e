--------------------------------- MODULE Render ---------------------------------
(***************************************************************************)
(* The site as a function of what was exported (commands/render): users    *)
(* and the addresses of their pages, the grants that are still held, and   *)
(* the counts of them for each achievement, repository and user; the lists *)
(* of events on the pages are left out.  logs gives each repository its    *)
(* events in the order of its file; an event is named by its repository    *)
(* and its index.                                                          *)
(***************************************************************************)
EXTENDS Enumeration

CONSTANT Slugify   \* Slugify[name]: a sequence of words

\* The words between the hyphens: one at least, which may be empty.
ASSUME SlugAssumption ==
  \A name \in DOMAIN Slugify :
    LET slug == Slugify[name]
    IN  Len(slug) \in Nat \ {0} /\ slug = [i \in 1 .. Len(slug) |-> slug[i]]

AllEvents(logs) == UNION {{r} \X DOMAIN logs[r] : r \in DOMAIN logs}
At(logs, e) == logs[e[1]][e[2]]
Before(e, f) == e[1] < f[1] \/ (e[1] = f[1] /\ e[2] < f[2])

\* S as a sequence, by a strict order.
Sorted(S, Less(_, _)) ==
  [k \in 1 .. Cardinality(S) |->
     CHOOSE e \in S : Cardinality({f \in S : Less(f, e)}) = k - 1]

-----------------------------------------------------------------------------
(***************************************************************************)
(* users.rs                                                                *)
(***************************************************************************)

EventsOf(logs, u) == {e \in AllEvents(logs) : At(logs, e).user = u}
FirstSeen(logs, u) == FirstOf({At(logs, e).time : e \in EventsOf(logs, u)})

\* The name in the latest event, the first of them in file order.
LatestName(logs, u) ==
  LET latest == {e \in EventsOf(logs, u) :
                   \A f \in EventsOf(logs, u) : At(logs, f).time <= At(logs, e).time}
  IN  At(logs, CHOOSE e \in latest : \A f \in latest \ {e} : Before(e, f)).name

\* derive_users: in the order in which they were first seen, the later ones of
\* the same slug numbered.
DeriveUsers(logs) ==
  LET emails == Sorted({At(logs, e).user : e \in AllEvents(logs)},
                  LAMBDA u, v : \/ FirstSeen(logs, u) < FirstSeen(logs, v)
                                \/ FirstSeen(logs, u) = FirstSeen(logs, v) /\ u < v)
      base(i)  == Slugify[LatestName(logs, emails[i])]
      count(i) == Cardinality({j \in 1 .. i : base(j) = base(i)})
  IN  [i \in DOMAIN emails |->
         [email |-> emails[i], name |-> LatestName(logs, emails[i]),
          slug  |-> IF count(i) = 1 THEN base(i) ELSE Append(base(i), count(i))]]

-----------------------------------------------------------------------------
(***************************************************************************)
(* aggregate.rs                                                            *)
(***************************************************************************)

\* Mutant: revocations are not looked at.
ActiveGrantsEver(logs) == {e \in AllEvents(logs) : At(logs, e).event = "grant"}

\* compute_active_grants: events in order, a revocation removing the grants of
\* its achievement and user so far.
StillActive(log) ==
  LET after[i \in 0 .. Len(log)] ==
        IF i = 0 THEN {}
        ELSE IF log[i].event = "grant" THEN after[i - 1] \cup {i}
        ELSE {k \in after[i - 1] : ~(log[k].ach = log[i].ach /\ log[k].user = log[i].user)}
  IN  after[Len(log)]

ActiveGrants(logs) == UNION {{r} \X StillActive(logs[r]) : r \in DOMAIN logs}

SlugOf(users, u) == users[CHOOSE k \in DOMAIN users : users[k].email = u].slug

\* build_achievement_contexts
AchievementContext(logs, users, a) ==
  LET holders == {e \in ActiveGrants(logs) : At(logs, e).ach = a}
  IN  [holders        |-> holders,
       unique_holders |-> Cardinality({SlugOf(users, At(logs, e).user) : e \in holders})]

\* build_repo_contexts
RepoContext(logs, row) ==
  [name               |-> row.name,
   total_achievements |-> Cardinality({e \in ActiveGrants(logs) : e[1] = row.name})]

\* build_user_contexts
UserContext(logs, user) ==
  [email               |-> user.email,
   slug                |-> user.slug,
   active_achievements |->
     Cardinality({e \in ActiveGrants(logs) : At(logs, e).user = user.email})]

\* aggregate
Aggregate(catalog, rows, logs) ==
  LET users == DeriveUsers(logs)
  IN  [achievements |-> [a \in catalog |-> AchievementContext(logs, users, a)],
       repositories |-> [k \in DOMAIN rows |-> RepoContext(logs, rows[k])],
       users        |-> [k \in DOMAIN users |-> UserContext(logs, users[k])]]
=============================================================================
