------------------------------ MODULE Accounts ------------------------------
(***************************************************************************)
(* How accounts come to be: signup and the logins of AuthService           *)
(* (auth/auth.service.ts), and the account that seed.ts creates.  Every    *)
(* statement is a step; calls interleave and any of them may break off     *)
(* between two steps.  What happens to a session after its first token is  *)
(* in RefreshTokens.                                                       *)
(*                                                                         *)
(* An account is named after the call that created it.  The email of a     *)
(* provider's token is an input of the login and need not be the same each *)
(* time: people change it, and Apple may send none (then the code makes    *)
(* one up from the subject).                                               *)
(***************************************************************************)
EXTENDS Naturals, FiniteSets

CONSTANTS
    Signups,        \* POST /auth/signup calls
    Logins,         \* POST /auth/login, /auth/oauth/google and /apple calls
    Seeds,          \* runs of seed.ts
    Emails,         \* addresses, in lower case
    SeedEmail,      \* the one of seed.ts
    Identities,     \* (provider, providerId) pairs
    Password,       \* stands for an identity in a login by password
    Nothing         \* no account, no email, no identity

Visits == Signups \cup Logins \cup Seeds

ASSUME VisitsAssumption == /\ Signups \cap Logins = {}
                           /\ Seeds \cap (Signups \cup Logins) = {}
ASSUME NamesAssumption ==
    /\ SeedEmail \in Emails
    /\ Password \notin Identities \cup {Nothing}
    /\ Nothing \notin Visits \cup Emails \cup Identities

VARIABLES
    account,        \* the users collection
    at,             \* at[c]: where visit c is
    input,          \* input[c]: the email, the role and the identity it came with
    user,           \* user[c]: the account it has in hand
    raced           \* auxiliary: pairs of logins of one identity under way at once

accountVars == <<account, at, input, user, raced>>

NoAccount == [email |-> Nothing]
NoInput   == [email |-> Nothing, vendor |-> FALSE, by |-> Nothing]
Exists(a) == account[a] # NoAccount

\* linked: authProviders, each entry with the login that added it.  profile
\* stands for vendorProfile, null by default.
NewAccount(mail, pass, isVendor, hasProfile, entries) ==
    [email |-> mail, password |-> pass, vendor |-> isVendor, profile |-> hasProfile,
     linked |-> entries]

\* The entry login c adds.
Entry(c) == <<input[c].by, c>>

WithEmail(mail) == {a \in Visits : account[a].email = mail}
Linked(a, i)    == Exists(a) /\ \E x \in account[a].linked : x[1] = i
WithIdentity(i) == {a \in Visits : Linked(a, i)}

Over == {"done", "refused", "broken"}

Move(c, from, to) == at[c] = from /\ at' = [at EXCEPT ![c] = to]

\* What a visit comes with.
Arrives(c, mail, isVendor, by, to) ==
    /\ Move(c, "new", to)
    /\ input' = [input EXCEPT ![c] = [email |-> mail, vendor |-> isVendor, by |-> by]]

-----------------------------------------------------------------------------
(* signup.                                                                 *)

\* findOne by email; 409 if there is one.
Signup(c, mail, isVendor) ==
    /\ Arrives(c, mail, isVendor, Nothing, IF WithEmail(mail) = {} THEN "create" ELSE "refused")
    /\ UNCHANGED <<account, user, raced>>

\* create, after the password was hashed: the unique index has the last word,
\* with a 500.
Create(c, doc, next) ==
    /\ at[c] = "create"
    /\ \/ /\ WithEmail(doc.email) # {}
          /\ at' = [at EXCEPT ![c] = "refused"]
          /\ UNCHANGED <<account, user>>
       \/ /\ WithEmail(doc.email) = {}
          /\ account' = [account EXCEPT ![c] = doc]
          /\ user' = [user EXCEPT ![c] = c]
          /\ at' = [at EXCEPT ![c] = next]
    /\ UNCHANGED input

SignupCreate(c) ==
    /\ c \in Signups
    /\ Create(c, NewAccount(input[c].email, TRUE, input[c].vendor, FALSE, {}),
              IF input[c].vendor THEN "profile" ELSE "tokens")
    /\ UNCHANGED raced

\* A vendor's profile is a second write.
SaveProfile(c) ==
    /\ Move(c, "profile", "tokens")
    /\ account' = [account EXCEPT ![c].profile = TRUE]
    /\ UNCHANGED <<input, user, raced>>

(* login: an account without a password, or no account, is refused; so is  *)
(* a wrong password.                                                       *)

Login(c, mail) ==
    /\ \/ /\ Arrives(c, mail, FALSE, Password, "refused")
          /\ UNCHANGED user
       \/ \E a \in WithEmail(mail) :
             /\ account[a].password
             /\ Arrives(c, mail, FALSE, Password, "tokens")
             /\ user' = [user EXCEPT ![c] = a]
    /\ UNCHANGED <<account, raced>>

(* loginWithGoogle and loginWithApple, after the provider's token was      *)
(* verified: findOrCreateOAuthUser.                                        *)

Searching(i) == {c \in Logins : at[c] \in {"email", "link", "create"} /\ input[c].by = i}

\* Mutant: every login goes by the email.
FindNone(c, mail, i) ==
    /\ Arrives(c, mail, FALSE, i, "email")
    /\ raced' = raced \cup {{c, d} : d \in Searching(i)}
    /\ UNCHANGED <<account, user>>

\* By identity: the account in hand is the one that carries it.
FindByIdentity(c, mail, i) ==
    /\ \/ /\ WithIdentity(i) # {}
          /\ Arrives(c, mail, FALSE, i, "tokens")
          /\ \E a \in WithIdentity(i) : user' = [user EXCEPT ![c] = a]
       \/ /\ WithIdentity(i) = {}
          /\ Arrives(c, mail, FALSE, i, "email")
          /\ UNCHANGED user
    /\ raced' = raced \cup {{c, d} : d \in Searching(i)}
    /\ UNCHANGED account

\* By email.
FindByEmail(c) ==
    /\ at[c] = "email"
    /\ \/ /\ WithEmail(input[c].email) = {}
          /\ at' = [at EXCEPT ![c] = "create"]
          /\ UNCHANGED user
       \/ \E a \in WithEmail(input[c].email) :
             /\ user' = [user EXCEPT ![c] = a]
             /\ at' = [at EXCEPT ![c] = "link"]
    /\ UNCHANGED <<account, input, raced>>

\* Mutant: the list of providers is replaced.
LinkOnly(c) ==
    /\ Move(c, "link", "tokens")
    /\ account' = [account EXCEPT ![user[c]].linked = {Entry(c)}]
    /\ UNCHANGED <<input, user, raced>>

\* authProviders.push and save: mongoose sends a $push, so that it adds to what
\* is stored and not to what was read.
Link(c) ==
    /\ Move(c, "link", "tokens")
    /\ account' = [account EXCEPT ![user[c]].linked = @ \cup {Entry(c)}]
    /\ UNCHANGED <<input, user, raced>>

CreateLinked(c) ==
    /\ c \in Logins
    /\ Create(c, NewAccount(input[c].email, FALSE, FALSE, FALSE, {Entry(c)}), "tokens")
    /\ UNCHANGED raced

\* issueTokenPair: the session, and its family noted on the account.
IssueTokens(c) ==
    /\ Move(c, "tokens", "done")
    /\ UNCHANGED <<account, input, user, raced>>

\* The process dies, or a statement fails.
BreakOff(c) ==
    /\ at[c] \notin Over \cup {"new"}
    /\ at' = [at EXCEPT ![c] = "broken"]
    /\ UNCHANGED <<account, input, user, raced>>

(* seed.ts: a vendor with everything at once, unless its email is taken.   *)

SeedVendor(c) ==
    \/ /\ Arrives(c, SeedEmail, TRUE, Nothing, IF WithEmail(SeedEmail) = {} THEN "create" ELSE "done")
       /\ UNCHANGED <<account, user, raced>>
    \/ /\ Create(c, NewAccount(SeedEmail, TRUE, TRUE, TRUE, {}), "trek")
       /\ UNCHANGED raced

-----------------------------------------------------------------------------
AccountsInit ==
    /\ account = [a \in Visits |-> NoAccount]
    /\ at = [c \in Visits |-> "new"]
    /\ input = [c \in Visits |-> NoInput]
    /\ user = [c \in Visits |-> Nothing]
    /\ raced = {}

VisitStep(c) ==
    \/ /\ c \in Signups
       /\ \E mail \in Emails, isVendor \in BOOLEAN : Signup(c, mail, isVendor)
    \/ /\ c \in Logins
       /\ \E mail \in Emails : Login(c, mail) \/ \E i \in Identities : FindByIdentity(c, mail, i)
    \/ SignupCreate(c) \/ SaveProfile(c)
    \/ FindByEmail(c) \/ Link(c) \/ CreateLinked(c) \/ IssueTokens(c)
    \/ c \in Seeds /\ SeedVendor(c)
    \/ BreakOff(c)

-----------------------------------------------------------------------------
(* Properties.                                                             *)

AccountType ==
    [email : Emails, password : BOOLEAN, vendor : BOOLEAN, profile : BOOLEAN,
     linked : SUBSET (Identities \X Logins)]
InputType ==
    [email : Emails, vendor : BOOLEAN, by : Identities \cup {Password, Nothing}]

AccountsTypeOK ==
    /\ account \in [Visits -> AccountType \cup {NoAccount}]
    /\ at \in [Visits -> Over \cup {"new", "create", "profile", "email", "link", "tokens", "trek"}]
    /\ input \in [Visits -> InputType \cup {NoInput}]
    /\ user \in [Visits -> Visits \cup {Nothing}]
    /\ raced \subseteq SUBSET Logins

\* "Link to an existing email/password account rather than creating a
\* duplicate": no two accounts share an email.  An identity is listed twice, on
\* one account or on two, only by logins that were under way at the same time;
\* and on two accounts only if, besides, the provider gave them two emails: of
\* one email, however many logins overlap, it never makes a second account.
OneAccountEach ==
    \A a, b \in Visits : Exists(a) /\ Exists(b) =>
        /\ account[a].email = account[b].email => a = b
        /\ \A x \in account[a].linked, y \in account[b].linked :
              x[1] = y[1] /\ <<a, x>> # <<b, y>> =>
                  /\ {x[2], y[2]} \in raced
                  /\ a # b => input[x[2]].email # input[y[2]].email

\* What a visit was answered with is there and stays, whatever other visits
\* link or create: a login's account carries its identity, or its password; a
\* vendor who signed up has the profile that nothing would give it later.
AnswersStand ==
    \A c \in Visits : at[c] = "done" /\ user[c] # Nothing =>
        /\ input[c].by = Password => account[user[c]].password
        /\ input[c].by \in Identities => Linked(user[c], input[c].by)
        /\ input[c].vendor => account[user[c]].vendor /\ account[user[c]].profile
=============================================================================
