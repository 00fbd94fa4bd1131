---------------------------- MODULE Registration ----------------------------
(***************************************************************************)
(* Registering at web-portal: do_register counts the attempt against the   *)
(* hourly limit of its address, checks the form, and creates the user at   *)
(* Keycloak in several calls, each of which may fail after the earlier     *)
(* ones had their effect.                                                  *)
(*                                                                         *)
(* A user at Keycloak has a name and an e-mail address of his own; other   *)
(* people may be there before the attempts, or come between.               *)
(*                                                                         *)
(* All attempts come from one address: its bucket is independent of the    *)
(* others.  A tick is a fraction of the hour.                              *)
(***************************************************************************)
EXTENDS Integers, Sequences, FiniteSets, FiniteSetsExt

CONSTANTS
  Attempts,   \* calls of do_register
  NameOf,     \* NameOf[r]: the username attempt r asks for
  MailOf,     \* MailOf[r]: the e-mail address it gives
  Limit,      \* REGISTER_LIMIT_PER_HOUR
  Hour,       \* the window, in ticks
  Nobody,
  Others      \* whoever did not register here: the realm's first users, and
              \* those an administrator makes

Parameters ==
  /\ Limit \in Nat /\ Hour \in Nat
  /\ Nobody \notin Attempts /\ Others \notin Attempts /\ Others # Nobody

VARIABLES
  stage,    \* stage[r]: the await attempt r is at
  bucket,   \* _register_attempts of the address: ages of its entries
  since,    \* since[r]: history, ticks since r passed the limit, -1 before
  created,  \* created[n]: who made user n at Keycloak
  owner,    \* owner[m]: whose user has the address m
  roles,    \* roles[n]: realm roles user n has
  found,    \* found[r]: roles whose representation r has read
  answer,   \* answer[r]: what the user was told
  faulty    \* history: attempts one of whose calls failed

vars == <<stage, bucket, since, created, owner, roles, found, answer, faulty>>

Names == {NameOf[r] : r \in Attempts}
Mails == {MailOf[r] : r \in Attempts}
Makers == Attempts \cup {Nobody, Others}
Roles == {"financial-read", "financial-write"}

Messages == {"none", "limit", "invalid", "unavailable", "taken", "later", "error", "success"}

TypeOK ==
  /\ stage \in [Attempts -> {"idle", "token", "create", "search", "read", "write", "assign", "over"}]
  /\ bucket \in Seq(0..(Hour + 1))
  /\ since \in [Attempts -> -1..(Hour + 1)]
  /\ created \in [Names -> Makers]
  /\ owner \in [Mails -> Makers]
  /\ roles \in [Names -> SUBSET Roles]
  /\ found \in [Attempts -> SUBSET Roles]
  /\ answer \in [Attempts -> Messages]
  /\ faulty \subseteq Attempts

Init ==
  /\ stage = [r \in Attempts |-> "idle"]
  /\ bucket = <<>>
  /\ since = [r \in Attempts |-> -1]
  /\ created = [n \in Names |-> Nobody]
  /\ owner = [m \in Mails |-> Nobody]
  /\ roles = [n \in Names |-> {}]
  /\ found = [r \in Attempts |-> {}]
  /\ answer = [r \in Attempts |-> "none"]
  /\ faulty = {}

-----------------------------------------------------------------------------
(* _check_register_rate: drop what is older than an hour from the front,   *)
(* then count; a refused attempt is not added.                             *)
\* Mutation: an entry leaves at the end of its hour.
Pruned_m(b) ==
  LET kept == {k \in DOMAIN b : b[k] < Hour}
  IN  IF kept = {} THEN <<>> ELSE SubSeq(b, Min(kept), Len(b))

Pruned(b) ==
  LET kept == {k \in DOMAIN b : b[k] <= Hour}
  IN  IF kept = {} THEN <<>> ELSE SubSeq(b, Min(kept), Len(b))

Answered(r, what) ==
  /\ answer' = [answer EXCEPT ![r] = what]
  /\ stage' = [stage EXCEPT ![r] = "over"]

OverLimit(r) ==
  /\ stage[r] = "idle"
  /\ Len(Pruned(bucket)) >= Limit
  /\ bucket' = Pruned(bucket)
  /\ Answered(r, "limit")
  /\ UNCHANGED <<since, created, owner, roles, found, faulty>>

(* The form is checked after the attempt was counted.                      *)
Submit(r, valid) ==
  /\ stage[r] = "idle"
  /\ Len(Pruned(bucket)) < Limit
  /\ bucket' = Append(Pruned(bucket), 0)
  /\ since' = [since EXCEPT ![r] = 0]
  /\ IF valid
     THEN stage' = [stage EXCEPT ![r] = "token"] /\ UNCHANGED answer
     ELSE Answered(r, "invalid")
  /\ UNCHANGED <<created, owner, roles, found, faulty>>

Reach(r, from, to) ==
  /\ stage[r] = from
  /\ stage' = [stage EXCEPT ![r] = to]
  /\ UNCHANGED <<bucket, since, answer>>

Fails(r, from, what) ==
  /\ stage[r] = from
  /\ Answered(r, what)
  /\ faulty' = faulty \cup {r}
  /\ UNCHANGED <<bucket, since>>

(* _get_admin_token                                                        *)
AdminToken(r) ==
  /\ Reach(r, "token", "create")
  /\ UNCHANGED <<created, owner, roles, found, faulty>>

AdminTokenFails(r) ==
  /\ Fails(r, "token", "unavailable")
  /\ UNCHANGED <<created, owner, roles, found>>

(* _keycloak_create_user: POST /users, which Keycloak answers with 409     *)
(* when a user has the name or the address.                                *)
Conflict(r) == created[NameOf[r]] # Nobody \/ owner[MailOf[r]] # Nobody

NewUser(r) ==
  /\ ~Conflict(r)
  /\ created' = [created EXCEPT ![NameOf[r]] = r]
  /\ owner' = [owner EXCEPT ![MailOf[r]] = r]

UserCreated(r) ==
  /\ Reach(r, "create", "search")
  /\ NewUser(r)
  /\ UNCHANGED <<roles, found, faulty>>

\* Mutation: a user who exists already is as good as a new one.
UserExists_m(r) ==
  /\ stage[r] = "create"
  /\ Conflict(r)
  /\ Answered(r, "success")
  /\ UNCHANGED <<bucket, since, created, owner, roles, found, faulty>>

UserExists(r) ==
  /\ stage[r] = "create"
  /\ Conflict(r)
  /\ Answered(r, "taken")
  /\ UNCHANGED <<bucket, since, created, owner, roles, found, faulty>>

(* Another status tells the user to try later; a lost answer raises, and   *)
(* the user may have been created all the same.                            *)
CreateRefused(r) ==
  /\ Fails(r, "create", "later")
  /\ UNCHANGED <<created, owner, roles, found>>

CreateLost(r) ==
  /\ Fails(r, "create", "error")
  /\ NewUser(r) \/ UNCHANGED <<created, owner>>
  /\ UNCHANGED <<roles, found>>

(* The search for the id, and one GET per role; another status than 200    *)
(* leaves the role out; an exception, or a search that finds nobody, ends  *)
(* the attempt.                                                            *)
Searched(r) ==
  /\ Reach(r, "search", "read")
  /\ UNCHANGED <<created, owner, roles, found, faulty>>

RoleRead(r, role, from, to) ==
  /\ Reach(r, from, to)
  /\ \/ /\ found' = [found EXCEPT ![r] = @ \cup {role}]
        /\ UNCHANGED faulty
     \/ /\ faulty' = faulty \cup {r}
        /\ UNCHANGED found
  /\ UNCHANGED <<created, owner, roles>>

ReadRole(r)  == RoleRead(r, "financial-read", "read", "write")
\* Mutation: the first role is read twice.
WriteRole_m(r) == RoleRead(r, "financial-read", "write", "assign")

WriteRole(r) == RoleRead(r, "financial-write", "write", "assign")

Raises(r) ==
  /\ \E from \in {"search", "read", "write", "assign"} : Fails(r, from, "error")
  /\ UNCHANGED <<created, owner, roles, found>>

(* The answer to the role mapping is not looked at.                        *)
Assigned(r) ==
  /\ stage[r] = "assign"
  /\ Answered(r, "success")
  /\ \/ /\ roles' = [roles EXCEPT ![NameOf[r]] = @ \cup found[r]]
        /\ UNCHANGED faulty
     \/ /\ faulty' = faulty \cup {r}
        /\ UNCHANGED roles
  /\ UNCHANGED <<bucket, since, created, owner, found>>

Aged(t) == IF t = -1 \/ t > Hour THEN t ELSE t + 1

Tick ==
  /\ bucket' = [k \in DOMAIN bucket |-> Aged(bucket[k])]
  /\ since' = [r \in Attempts |-> Aged(since[r])]
  /\ UNCHANGED <<stage, created, owner, roles, found, answer, faulty>>

(* The process restarts: its bucket and its handlers are lost.             *)
Restart ==
  /\ bucket' = <<>>
  /\ since' = [r \in Attempts |-> -1]
  /\ stage' = [r \in Attempts |-> IF stage[r] = "idle" THEN "idle" ELSE "over"]
  /\ faulty' = faulty \cup {r \in Attempts : stage[r] \notin {"idle", "over"}}
  /\ UNCHANGED <<created, owner, roles, found, answer>>

(* Keycloak: somebody gets the name, or somebody the address.              *)
OthersTakeName(n) ==
  /\ created[n] = Nobody
  /\ created' = [created EXCEPT ![n] = Others]
  /\ UNCHANGED <<stage, bucket, since, owner, roles, found, answer, faulty>>

OthersTakeMail(m) ==
  /\ owner[m] = Nobody
  /\ owner' = [owner EXCEPT ![m] = Others]
  /\ UNCHANGED <<stage, bucket, since, created, roles, found, answer, faulty>>

Next ==
  \/ \E r \in Attempts :
       \/ OverLimit(r)
       \/ \E valid \in BOOLEAN : Submit(r, valid)
       \/ AdminToken(r) \/ AdminTokenFails(r)
       \/ UserCreated(r) \/ UserExists(r) \/ CreateRefused(r) \/ CreateLost(r)
       \/ Searched(r) \/ ReadRole(r) \/ WriteRole(r) \/ Raises(r)
       \/ Assigned(r)
  \/ \E n \in Names : OthersTakeName(n)
  \/ \E m \in Mails : OthersTakeMail(m)
  \/ Tick
  \/ Restart

Spec == Init /\ [][Next]_vars

-----------------------------------------------------------------------------
(* In no hour do more than Limit attempts of one address pass, counted     *)
(* over a sliding window and since the last start (_check_register_rate).  *)
HourlyLimit == Cardinality({r \in Attempts : since[r] \in 0..Hour}) <= Limit

(* What the user is told is so: who is told of success made the user of    *)
(* that name, with that address; who is told that they are in use made     *)
(* neither, and somebody has one of them, also when two register at once   *)
(* (_keycloak_create_user, do_register).                                   *)
AnswerIsHonest ==
  \A r \in Attempts :
    /\ answer[r] = "success" => created[NameOf[r]] = r /\ owner[MailOf[r]] = r
    /\ answer[r] = "taken" => r \notin {created[NameOf[r]], owner[MailOf[r]]} /\ Conflict(r)

(* A user without a role he should have, once the attempt that made him is *)
(* over, comes from a call that failed: nothing else leaves one half made  *)
(* (_keycloak_create_user).                                                *)
HalfMadeHasACause ==
  \A n \in Names :
    LET r == created[n]
    IN  r \in Attempts /\ roles[n] # Roles => stage[r] # "over" \/ r \in faulty

(* Registering as a whole: limited, honest, and complete unless a call     *)
(* failed (do_register).                                                   *)
RegistrationIsSound == HourlyLimit /\ AnswerIsHonest /\ HalfMadeHasACause
=============================================================================
