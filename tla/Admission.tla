----------------------------- MODULE Admission -----------------------------
(***************************************************************************)
(* How a client is admitted with the password file extension, and what it  *)
(* may then do: PasswordFileAuthenticator, which reloads the passwords     *)
(* when their file changes, and RoleManager, which decides by the role     *)
(* file and the distributor's settings.                                    *)
(*                                                                         *)
(* The passwords are edited in place, as MakePassword does: the file is    *)
(* truncated, written, perhaps in parts, and closed.  Each change is       *)
(* raised to the watchers of the file, each with a thread that takes the   *)
(* changes one after the other; changes it has not taken yet count as one. *)
(* There are two watchers: the one meant for the role file watches the     *)
(* name of the password file, in the role file's folder, and reloads the   *)
(* passwords like the other, which it is told of if both files are in one  *)
(* folder.  The roles are loaded once.                                     *)
(***************************************************************************)
EXTENDS Globbing

CONSTANTS
    Clients, Users, Feeds, Roles,
    Hosts,              \* names of hosts, as sequences of characters
    RoleFiles,          \* the contents the role file may have when the server starts
    Allow, Deny, IsProxyAllowed,   \* DistributorRole
    OneFolder,          \* the password and the role file are in one folder
    None                \* no value

Watchers == {"password", "role"}

\* The password file holds the users whose password it has, or is Partial,
\* which is no JSON.  A truncated file is read as one without users.
Partial == {None}
Contents == (SUBSET Users) \cup {Partial}

\* An entry of the role file: a pattern of hosts and a Permission.
Entries == [pattern : Seq(Characters), allow : SUBSET Roles, deny : SUBSET Roles]

ASSUME ConstantsAssumption ==
    /\ Allow \subseteq Roles /\ Deny \subseteq Roles
    /\ IsProxyAllowed \in BOOLEAN /\ OneFolder \in BOOLEAN
    /\ None \notin Users /\ None \notin Hosts /\ None \notin Seq(Entries)
    /\ \A content \in Contents : content # None
    /\ Hosts \subseteq Seq(Characters)
    /\ RoleFiles \subseteq [Users -> [Feeds -> Seq(Entries) \cup {None}]]

VARIABLES
    file,        \* the password file
    editing,     \* the editor: "idle", "writing" or "written", not closed yet
    watcher,     \* a watcher is "off", "watching" or "dead"
    changed,     \* a change has been raised to it and not been taken
    loading,     \* what its thread has read and not yet assigned, or None
    passwords,   \* _passwordManager
    told,        \* the watchers the last change was raised to, all before the first
    sharing,     \* the platform lets a file be read while it is open to be written
    roles,       \* _roleManager: by user and feed the permissions of hosts, in
                 \* the order of the file, None where the file has no such feed
    session,     \* of a client: "new", "refused", "unserved" or "served"
    origin,      \* who was admitted from where: user, host and forwarded host
    permissions, \* RoleManager.FeedPermissions of an admitted client
    decisions    \* RoleManager._feedDecision, as triples

passwordFile == <<file, editing, watcher, changed, loading, passwords, told>>
fixed == <<sharing, roles>>
sessions == <<session, origin, permissions, decisions>>
vars == <<passwordFile, fixed, sessions>>

TypeOK ==
    /\ file \in Contents
    /\ editing \in {"idle", "writing", "written"}
    /\ file = Partial => editing = "writing"
    /\ watcher \in [Watchers -> {"off", "watching", "dead"}]
    /\ changed \in [Watchers -> BOOLEAN]
    /\ loading \in [Watchers -> {None} \cup Contents]
    /\ \A w \in Watchers : loading[w] # None => watcher[w] = "watching"
    /\ passwords \in SUBSET Users
    /\ told \subseteq Watchers
    /\ sharing \in BOOLEAN
    /\ roles \in RoleFiles
    /\ session \in [Clients -> {"new", "refused", "unserved", "served"}]
    /\ origin \in [Clients -> (Users \X Hosts \X (Hosts \cup {None})) \cup {None}]
    /\ DOMAIN permissions = Clients
    /\ \A c \in Clients : \E named \in SUBSET Feeds : permissions[c] \in [named -> Entries]
    /\ decisions \in [Clients -> SUBSET (Feeds \X Roles \X BOOLEAN)]

Everything == [pattern |-> <<>>, allow |-> {}, deny |-> Roles]

\* The constructor of the authenticator, up to the load of the passwords.
Init ==
    /\ file \in SUBSET Users
    /\ editing = "idle"
    /\ watcher = [w \in Watchers |-> "off"]
    /\ changed = [w \in Watchers |-> FALSE]
    /\ loading = [w \in Watchers |-> None]
    /\ passwords = file
    /\ told = Watchers
    /\ sharing \in BOOLEAN
    /\ roles \in RoleFiles
    /\ session = [c \in Clients |-> "new"]
    /\ origin = [c \in Clients |-> None]
    /\ permissions = [c \in Clients |-> [f \in {} |-> Everything]]
    /\ decisions = [c \in Clients |-> {}]

-----------------------------------------------------------------------------
(* The password file and its watchers.                                     *)

\* EnableRaisingEvents, which follows the load.
Enable(w) ==
    /\ watcher[w] = "off"
    /\ w = "role" => watcher["password"] # "off"
    /\ watcher' = [watcher EXCEPT ![w] = "watching"]
    /\ UNCHANGED <<file, editing, changed, loading, passwords, told, fixed, sessions>>

\* The watchers the operating system tells of a change of the password file.
Told == {w \in Watchers : watcher[w] = "watching" /\ (w = "password" \/ OneFolder)}

Change(content) ==
    /\ file' = content
    /\ changed' = [w \in Watchers |-> changed[w] \/ w \in Told]
    /\ told' = Told
    /\ UNCHANGED <<watcher, loading, passwords, fixed, sessions>>

\* JsonPasswordManager.Save: CreateText, ...
Truncate ==
    /\ editing = "idle"
    /\ editing' = "writing"
    /\ Change({})

\* ... the writes of the text, of which the last makes it complete, ...
WriteText ==
    /\ editing = "writing"
    /\ \/ Change(Partial) /\ UNCHANGED editing
       \/ \E content \in SUBSET Users : Change(content) /\ editing' = "written"

\* ... and Dispose.
CloseFile ==
    /\ editing = "written"
    /\ editing' = "idle"
    /\ UNCHANGED <<file, watcher, changed, loading, passwords, told, fixed, sessions>>

\* A load that waits until somebody has been written to the file.
OnChanged_NotEmpty(w) ==
    /\ watcher[w] = "watching" /\ changed[w] /\ loading[w] = None /\ file # {}
    /\ changed' = [changed EXCEPT ![w] = FALSE]
    /\ loading' = [loading EXCEPT ![w] = file]
    /\ UNCHANGED <<file, editing, watcher, passwords, told, fixed, sessions>>

\* OnChanged on the thread of watcher w: the file is read, or OpenText throws,
\* because it is being written, out of the handler, which ends the watcher ...
OnChanged(w) ==
    /\ watcher[w] = "watching" /\ changed[w] /\ loading[w] = None
    /\ changed' = [changed EXCEPT ![w] = FALSE]
    /\ \/ /\ sharing \/ editing = "idle"
          /\ loading' = [loading EXCEPT ![w] = file] /\ UNCHANGED watcher
       \/ /\ ~sharing /\ editing # "idle"
          /\ watcher' = [watcher EXCEPT ![w] = "dead"] /\ UNCHANGED loading
    /\ UNCHANGED <<file, editing, passwords, told, fixed, sessions>>

\* Changes raised during a load are taken to be part of it.
Assign_Settles(w) ==
    /\ loading[w] # None
    /\ loading' = [loading EXCEPT ![w] = None]
    /\ IF loading[w] = Partial
       THEN watcher' = [watcher EXCEPT ![w] = "dead"] /\ UNCHANGED <<passwords, changed>>
       ELSE passwords' = loading[w] /\ changed' = [changed EXCEPT ![w] = FALSE]
            /\ UNCHANGED watcher
    /\ UNCHANGED <<file, editing, told, fixed, sessions>>

\* A part of the file is assigned as well.
Assign_Partial(w) ==
    /\ loading[w] # None
    /\ loading' = [loading EXCEPT ![w] = None]
    /\ passwords' = loading[w]
    /\ UNCHANGED <<file, editing, watcher, changed, told, fixed, sessions>>

\* ... and assigned.  Deserialize throws for a file that is no JSON, which ends
\* the watcher as well.
Assign(w) ==
    /\ loading[w] # None
    /\ loading' = [loading EXCEPT ![w] = None]
    /\ IF loading[w] = Partial
       THEN watcher' = [watcher EXCEPT ![w] = "dead"] /\ UNCHANGED passwords
       ELSE passwords' = loading[w] /\ UNCHANGED watcher
    /\ UNCHANGED <<file, editing, changed, told, fixed, sessions>>

-----------------------------------------------------------------------------
(* Admission and roles.                                                    *)

\* RoleManager.EffectiveHost.
EffectiveHost(host, forwardedFor) ==
    IF IsProxyAllowed /\ forwardedFor # None THEN forwardedFor ELSE host

\* The feeds the role file has for the user, with hosts or, for any host, with none.
NamedFeeds(u) == {f \in Feeds : roles[u][f] # None}

\* The entry whose pattern is the first to match, in the order of the file.
FirstMatch_Last(host, entries) ==
    LET hits == {i \in 1..Len(entries) : Glob(host, entries[i].pattern) # "no"}
    IN  IF hits = {} THEN <<"yes", Everything>>
        ELSE <<Glob(host, entries[Max(hits)].pattern), entries[Max(hits)]>>

\* Where(Glob).FirstOrDefault: no pattern behind the first match is looked at.
FirstMatch(host, entries) ==
    LET hits == {i \in 1..Len(entries) : Glob(host, entries[i].pattern) # "no"}
    IN  IF hits = {} THEN <<"yes", Everything>>
        ELSE <<Glob(host, entries[Min(hits)].pattern), entries[Min(hits)]>>

\* CreateInteractor on a thread of its own: Authenticate, which throws for a
\* wrong password, and the constructor of RoleManager, which throws what Glob
\* does.  The acceptor logs either and leaves the connection as it is.
CreateInteractor(c, u, isPasswordRight, host, forwardedFor) ==
    LET match == [f \in NamedFeeds(u) |->
                    FirstMatch(EffectiveHost(host, forwardedFor), roles[u][f])]
        admitted == isPasswordRight /\ u \in passwords
    IN  /\ session[c] = "new"
        /\ \/ /\ ~admitted
              /\ session' = [session EXCEPT ![c] = "refused"]
              /\ UNCHANGED <<origin, permissions>>
           \/ /\ admitted /\ \E f \in NamedFeeds(u) : match[f][1] = "throws"
              /\ session' = [session EXCEPT ![c] = "unserved"]
              /\ UNCHANGED <<origin, permissions>>
           \/ /\ admitted /\ \A f \in NamedFeeds(u) : match[f][1] = "yes"
              /\ session' = [session EXCEPT ![c] = "served"]
              /\ origin' = [origin EXCEPT ![c] = <<u, host, forwardedFor>>]
              /\ permissions' = [permissions EXCEPT ![c] =
                        [f \in NamedFeeds(u) |-> match[f][2]]]
        /\ UNCHANGED <<passwordFile, fixed, decisions>>

\* Each test that applies overrules the ones before it.
Decision(c, f, r) ==
    LET named == f \in DOMAIN permissions[c]
    IN  IF named /\ r \in permissions[c][f].deny THEN FALSE
        ELSE IF named /\ r \in permissions[c][f].allow THEN TRUE
        ELSE r \in Allow /\ r \notin Deny

\* HasRole, called by the handlers on the event loop.
HasRole(c, f, r) ==
    /\ session[c] = "served"
    /\ ~\E d \in BOOLEAN : <<f, r, d>> \in decisions[c]
    /\ decisions' = [decisions EXCEPT ![c] = @ \cup {<<f, r, Decision(c, f, r)>>}]
    /\ UNCHANGED <<passwordFile, fixed, session, origin, permissions>>

Reload == \E w \in Watchers : Enable(w) \/ OnChanged(w) \/ Assign(w)

Next ==
    \/ Truncate \/ WriteText \/ CloseFile
    \/ Reload
    \/ \E c \in Clients, u \in Users, isPasswordRight \in BOOLEAN, host \in Hosts,
          forwardedFor \in Hosts \cup {None} :
            CreateInteractor(c, u, isPasswordRight, host, forwardedFor)
    \/ \E c \in Clients, f \in Feeds, r \in Roles : HasRole(c, f, r)

\* The threads of the watchers run; nobody has to finish an edit.
Spec == Init /\ [][Next]_vars /\ WF_vars(Reload)

-----------------------------------------------------------------------------
(* Properties.                                                             *)

\* No watcher that lives has a change to take or a load to assign.
Settled == \A w \in Watchers : watcher[w] = "watching" => ~changed[w] /\ loading[w] = None

\* One of the watchers the last change was raised to lives.
Watched == \E w \in told : watcher[w] = "watching"

\* PasswordFileAuthenticator.OnChanged: once the changes of the file have been
\* taken the passwords in use are the ones in the file, whatever parts of it were
\* read on the way, in whatever order two watchers loaded and assigned, and even if
\* one of them died of it.  Excepted is a change that was raised to no watcher, or
\* only to watchers that have died.
LoadedIsCurrent == Settled /\ Watched => passwords = file

\* An edit takes effect, once it has ended, unless the next begins, or it was
\* raised to no watcher that lives.
EditTakesEffect ==
    editing = "idle" ~> passwords = file \/ editing # "idle" \/ ~Watched

\* RoleManager: every decision follows from the first entry of the role file
\* that matches the client's host for the feed: what it denies is denied, what it
\* allows is allowed, and the distributor's settings decide the rest.  A feed
\* the file has for the client's user with no entry that matches is denied.
Entry(c, f, i) ==
    LET who == origin[c]
        host == IF IsProxyAllowed /\ who[3] # None THEN who[3] ELSE who[2]
        entries == roles[who[1]][f]
    IN  /\ Matches(host, entries[i].pattern)
        /\ \A j \in 1..(i - 1) : ~Matches(host, entries[j].pattern)
Permitted(c, f, r) ==
    LET entries == roles[origin[c][1]][f]
    IN  \/ /\ entries # None
           /\ \E i \in 1..Len(entries) : Entry(c, f, i) /\ r \in entries[i].allow \ entries[i].deny
        \/ /\ r \in Allow \ Deny
           /\ \/ entries = None
              \/ \E i \in 1..Len(entries) :
                    Entry(c, f, i) /\ r \notin entries[i].allow \cup entries[i].deny
DecisionsFollowRoles ==
    \A c \in Clients : \A d \in decisions[c] : d[3] = Permitted(c, d[1], d[2])
=============================================================================
