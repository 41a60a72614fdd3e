------------------------------ MODULE AuthStore ------------------------------
(***************************************************************************)
(* The accounts of the CERT portal: one JSON file that every operation     *)
(* reads whole, changes and writes whole. Node runs one handler at a time, *)
(* so an operation is atomic unless it awaits: creating an account,        *)
(* completing an invitation and setting a password hash with bcrypt between*)
(* the read and the write, and write back a file that may be stale by then.*)
(***************************************************************************)
EXTENDS Naturals, FiniteSets

CONSTANTS
  Ids,        \* account identifiers, drawn fresh by uuidv4
  Names,      \* login names
  Requests,   \* slots for requests that wait for bcrypt
  Enrolling,  \* bound: who opens the second-factor page of the profile
  Admin0,     \* the account of ensureBootstrapAdmin
  AdminName,  \* its name
  NoAccount,  \* what the file has for an identifier without account
  NoWrite     \* a slot that waits for nothing

Roles == {"admin", "analyst"}
Account ==
  [name : Names, role : Roles, active : BOOLEAN, pending : BOOLEAN,
   password : BOOLEAN, mfaRequired : BOOLEAN, mfaEnabled : BOOLEAN,
   secret : BOOLEAN, invitation : BOOLEAN]
File == [Ids -> Account \cup {NoAccount}]
Write == [op : {"create", "activate", "reset"}, id : Ids, file : File, fresh : BOOLEAN]

ASSUME AdminAssumption == Admin0 \in Ids /\ AdminName \in Names
ASSUME EnrollingAssumption == Enrolling \subseteq Ids
ASSUME NoAccountAssumption == NoAccount \notin Account
ASSUME NoWriteAssumption == NoWrite \notin Write

VARIABLES
  users,       \* users.json
  waiting,     \* for each slot, the write that follows its bcrypt hash
  sessions,    \* the accounts a session cookie was signed for
  issued,      \* the identifiers drawn so far
  created,     \* those whose creation or invitation was answered
  removed,     \* those whose deletion was answered
  demoted,     \* some edit took an active administrator's rights away
  overwritten  \* some write replaced a file it had not read

history == <<created, removed, demoted, overwritten>>
vars == <<users, waiting, sessions, issued, history>>

NewAccount(name, role) ==
  [name |-> name, role |-> role, active |-> TRUE, pending |-> FALSE,
   password |-> TRUE, mfaRequired |-> FALSE, mfaEnabled |-> FALSE,
   secret |-> FALSE, invitation |-> FALSE]

Invited(name, role) ==
  [name |-> name, role |-> role, active |-> FALSE, pending |-> TRUE,
   password |-> FALSE, mfaRequired |-> TRUE, mfaEnabled |-> FALSE,
   secret |-> FALSE, invitation |-> TRUE]

Init ==
  /\ users = [i \in Ids |->
       IF i = Admin0 THEN NewAccount(AdminName, "admin") ELSE NoAccount]
  /\ waiting = [r \in Requests |-> NoWrite]
  /\ sessions = {}
  /\ issued = {Admin0}
  /\ created = {Admin0} /\ removed = {}
  /\ demoted = FALSE /\ overwritten = FALSE

Accounts(file) == {i \in Ids : file[i] # NoAccount}
With(i, a) == [users EXCEPT ![i] = a]

ActiveAdmins(file) ==
  {i \in Accounts(file) :
     file[i].role = "admin" /\ ~file[i].pending /\ file[i].active}

NameTaken(name) == \E i \in Accounts(users) : users[i].name = name

\* sessionMiddleware reads the account again on every request.
SignedIn(i) == i \in sessions /\ i \in Accounts(users) /\ users[i].active
IsAdmin(i) == SignedIn(i) /\ users[i].role = "admin"

\* The file is written at once: every waiting write has now read an older one.
Save(file) ==
  /\ users' = file
  /\ waiting' = [r \in Requests |->
       IF waiting[r] = NoWrite THEN NoWrite
       ELSE [waiting[r] EXCEPT !.fresh = FALSE]]

Hash(r, op, i, file) ==
  /\ waiting[r] = NoWrite
  /\ waiting' = [waiting EXCEPT ![r] = [op |-> op, id |-> i, file |-> file, fresh |-> TRUE]]
  /\ UNCHANGED users

(***************************************************************************)
(* Administration                                                          *)
(***************************************************************************)
CreateUser(r, by, i, name, role) ==
  /\ IsAdmin(by)
  /\ i \notin issued /\ ~NameTaken(name)
  /\ Hash(r, "create", i, With(i, NewAccount(name, role)))
  /\ issued' = issued \cup {i}
  /\ UNCHANGED <<sessions, history>>

InviteFileUnsaved(i, name, role) == users  \* mutant: saveUsers is missing
InviteFile(i, name, role) == With(i, Invited(name, role))

CreateUserInvite(by, i, name, role) ==
  /\ IsAdmin(by)
  /\ i \notin issued /\ ~NameTaken(name)
  /\ Save(InviteFile(i, name, role))
  /\ issued' = issued \cup {i}
  /\ created' = created \cup {i}
  /\ UNCHANGED <<sessions, removed, demoted, overwritten>>

\* PATCH from the edit form: role and active together, no await.
EditUser(by, i, role, active) ==
  /\ IsAdmin(by)
  /\ i \in Accounts(users)
  /\ Save(With(i, [users[i] EXCEPT !.role = role, !.active = active]))
  /\ demoted' = (demoted \/ (i \in ActiveAdmins(users) /\ (role # "admin" \/ ~active)))
  /\ UNCHANGED <<sessions, issued, created, removed, overwritten>>

ResetPasswordPending(r, by, i) ==  \* mutant: the account has to be activated again
  /\ IsAdmin(by)
  /\ i \in Accounts(users)
  /\ Hash(r, "reset", i, With(i, [users[i] EXCEPT !.password = TRUE, !.pending = TRUE]))
  /\ UNCHANGED <<sessions, issued, history>>
\* PATCH from the password form.
ResetPassword(r, by, i) ==
  /\ IsAdmin(by)
  /\ i \in Accounts(users)
  /\ Hash(r, "reset", i, With(i, [users[i] EXCEPT !.password = TRUE, !.pending = FALSE]))
  /\ UNCHANGED <<sessions, issued, history>>

Deletable(i) ==
  /\ i \in Accounts(users)
  /\ i \in ActiveAdmins(users) => Cardinality(ActiveAdmins(users)) > 1

DeleteUser(by, i) ==
  /\ IsAdmin(by)
  /\ by # i
  /\ Deletable(i)
  /\ Save(With(i, NoAccount))
  /\ removed' = removed \cup {i}
  /\ UNCHANGED <<sessions, issued, created, demoted, overwritten>>

(***************************************************************************)
(* The invited user                                                        *)
(***************************************************************************)
InvitationOpen(i) ==
  /\ i \in Accounts(users)
  /\ users[i].invitation /\ users[i].pending

SetupActivationMfa(i) ==
  /\ InvitationOpen(i)
  /\ Save(With(i, [users[i] EXCEPT !.secret = TRUE]))
  /\ UNCHANGED <<sessions, issued, history>>

ActivableUnprepared(i) == InvitationOpen(i)  \* mutant: the secret is not asked for
Activable(i) == InvitationOpen(i) /\ users[i].secret

Activated(a) ==
  [a EXCEPT !.password = TRUE, !.pending = FALSE, !.active = TRUE,
            !.mfaEnabled = TRUE, !.mfaRequired = TRUE, !.invitation = FALSE]

CompleteActivation(r, i) ==
  /\ Activable(i)
  /\ Hash(r, "activate", i, With(i, Activated(users[i])))
  /\ UNCHANGED <<sessions, issued, history>>

(***************************************************************************)
(* The end of a request that hashed: the file it read, changed, is written *)
(***************************************************************************)
WrittenReloaded(w) == [users EXCEPT ![w.id] = w.file[w.id]]  \* mutant: the file is read again after the hash
WrittenAccount(w) == w.file[w.id]  \* mutant: the account is written in place of the file
Written(w) == w.file

SaveHashed(r) ==
  /\ waiting[r] # NoWrite
  /\ users' = Written(waiting[r])
  /\ waiting' = [s \in Requests |->
       IF s = r \/ waiting[s] = NoWrite THEN NoWrite
       ELSE [waiting[s] EXCEPT !.fresh = FALSE]]
  /\ created' = IF waiting[r].op = "create" THEN created \cup {waiting[r].id} ELSE created
  /\ overwritten' = (overwritten \/ ~waiting[r].fresh)
  /\ UNCHANGED <<sessions, issued, removed, demoted>>

(***************************************************************************)
(* Sessions and the second factor                                          *)
(***************************************************************************)
MfaRefusesLogin(a) == a.mfaRequired /\ ~a.mfaEnabled

CanLogin(a) == ~a.pending /\ a.active /\ a.password /\ ~MfaRefusesLogin(a)

\* The code of the second factor is asked only with mfaEnabled and a secret.
AsksTotp(a) == a.mfaEnabled /\ a.secret

\* A session is a signed cookie the server keeps no record of: a logout clears
\* the browser's copy and changes nothing here.
Login(i) ==
  /\ i \in Accounts(users) /\ CanLogin(users[i])
  /\ sessions' = sessions \cup {i}
  /\ UNCHANGED <<users, waiting, issued, history>>

\* MfaSetup draws a QR code and MfaDisable compares a password after the session
\* was checked: the account may have been deactivated when the file is written.
WasSignedIn(i) == i \in sessions /\ i \in Accounts(users)

MfaSetup(i) ==
  /\ WasSignedIn(i)
  /\ Save(With(i, [users[i] EXCEPT !.secret = TRUE, !.mfaEnabled = FALSE]))
  /\ UNCHANGED <<sessions, issued, history>>

MfaActivate(i) ==
  /\ SignedIn(i)
  /\ users[i].secret
  /\ Save(With(i, [users[i] EXCEPT !.mfaEnabled = TRUE]))
  /\ UNCHANGED <<sessions, issued, history>>

MfaDisable(i) ==
  /\ WasSignedIn(i)
  /\ ~users[i].mfaRequired
  /\ Save(With(i, [users[i] EXCEPT !.mfaEnabled = FALSE, !.secret = FALSE]))
  /\ UNCHANGED <<sessions, issued, history>>

\* The portal restarts: what waited for a hash is lost, cookies stay valid.
Restart ==
  /\ \E r \in Requests : waiting[r] # NoWrite
  /\ waiting' = [r \in Requests |-> NoWrite]
  /\ UNCHANGED <<users, sessions, issued, history>>

Administration(by) ==
  \/ \E i \in Ids, name \in Names, role \in Roles :
       \/ \E r \in Requests : CreateUser(r, by, i, name, role)
       \/ CreateUserInvite(by, i, name, role)
  \/ \E i \in Ids :
       \/ \E role \in Roles, active \in BOOLEAN : EditUser(by, i, role, active)
       \/ \E r \in Requests : ResetPassword(r, by, i)
       \/ DeleteUser(by, i)

Next ==
  \/ \E by \in Ids : Administration(by)
  \/ \E i \in Ids :
       \/ SetupActivationMfa(i) \/ \E r \in Requests : CompleteActivation(r, i)
       \/ Login(i)
  \/ \E i \in Enrolling : MfaSetup(i) \/ MfaActivate(i) \/ MfaDisable(i)
  \/ \E r \in Requests : SaveHashed(r)
  \/ Restart

Spec == Init /\ [][Next]_vars

(***************************************************************************)
(* Properties                                                              *)
(***************************************************************************)
\* Every variable stays within the values the code gives it.
TypeOK ==
  /\ users \in File
  /\ waiting \in [Requests -> Write \cup {NoWrite}]
  /\ sessions \subseteq Ids /\ issued \subseteq Ids
  /\ created \subseteq Ids /\ removed \subseteq Ids
  /\ demoted \in BOOLEAN /\ overwritten \in BOOLEAN

Unique(file) ==
  \A i, j \in Accounts(file) : file[i].name = file[j].name => i = j

\* findByUsername takes the first match, so no two accounts share a login. The
\* name is checked before the hash and written after it: only the fact that the
\* whole old file is written back keeps an invitation made meanwhile from
\* becoming a second account of the same name.
UniqueNames == Unique(users)

\* auth-store.js:265 protects the last active administrator from deletion: one
\* is left, whatever writes overlap and whatever a stale file brings back,
\* unless an edit took one's rights away.
ActiveAdminRemains == demoted \/ ActiveAdmins(users) # {}

\* An account that must have a second factor is never let in without its code,
\* through invitations, resets, set-ups and stale files alike.
RequiredMfaIsAsked ==
  \A i \in Accounts(users) :
    users[i].mfaRequired /\ CanLogin(users[i]) => AsksTotp(users[i])

\* As long as no write replaced a file it had not read, an account whose creation
\* was answered exists until its deletion is answered, and not after.
AnswersStand ==
  overwritten \/ Accounts(users) = created \ removed

\* portal-shared/i18n/fr.json:745 "Supprimer cet utilisateur ?": a user whose
\* deletion was answered is gone for good.
DeletedIsGone == removed \cap Accounts(users) = {}
=============================================================================
