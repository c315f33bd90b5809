------------------------------- MODULE LocalStore -------------------------------
(***************************************************************************)
(* The file the connections are kept in, from launch to launch, and the    *)
(* passwords in the Keychain with what the process remembers of them.      *)
(*                                                                         *)
(* A file is brought up to date at launch by statements that are each      *)
(* their own transaction; its version is written after the last of them.   *)
(* A read of the Keychain is made on another thread than the writes are.   *)
(***************************************************************************)
EXTENDS Integers, Sequences, FiniteSets, SequencesExt

CONSTANTS
    Kept, Passwords,     \* the connections and what may be typed for them
    Begun,               \* the versions a file can have been left at by other builds
    MaxReads, MaxKept    \* bounds: reads under way at a time, writes in all

\* No file is of a later build than this one.
ASSUME LocalAssumption ==
    IsFiniteSet(Kept) /\ Begun \subseteq 0..3 /\ MaxReads \in Nat /\ MaxKept \in Nat

VARIABLES
    version, applied,   \* the file: what it says it is, and the statements it has seen
    order,              \* the connections in it, in the order of the sidebar
    keychain,
    up, store, migrating,      \* the process, its store, and the statement a migration is at
    listing,        \* the sidebar's
    cache, reads,       \* what the Keychain has said, and the reads under way
    writes,
    torn, raced         \* was a migration ever cut short; the connections of which a
                        \* password was written under a read, or not deleted when asked to

storeVars ==
    <<version, applied, order, keychain, up, store, migrating, listing, cache, reads, writes,
      torn, raced>>

\* The statements that bring a file to versions 1, 2 and 3: four tables and an
\* index, then a column, then four columns and an update.
SCHEMA_VERSION == 3
Statements == 11
Applied(v) == CASE v = 0 -> 0 [] v = 1 -> 5 [] v = 2 -> 6 [] v = 3 -> Statements
Repeatable(n) == n = Statements     \* the update

NoPassword == "none"
Unread == "unread"

LocalInit ==
    /\ version \in Begun /\ applied = Applied(version)
    /\ order = IF version = 0 THEN <<>> ELSE SetToSeq(Kept)
    /\ keychain = [c \in Kept |-> NoPassword]
    /\ up = FALSE /\ store = "none" /\ migrating = 0 /\ listing = <<>>
    /\ cache = [c \in Kept |-> Unread] /\ reads = {} /\ writes = 0
    /\ torn = FALSE /\ raced = {}

onDisk == <<version, applied, order>>
secrets == <<keychain, cache, reads, raced>>

StoreOpens == store' = "open" /\ migrating' = 0 /\ listing' = order

\* The process starts, and reads how old the file is.
ProcessStarts ==
    /\ ~up /\ up' = TRUE
    /\ IF version >= SCHEMA_VERSION THEN StoreOpens
       ELSE /\ migrating' = Applied(version) + 1 /\ store' = "none" /\ listing' = <<>>
    /\ UNCHANGED <<onDisk, secrets, writes, torn>>

\* Slip: the version is written before the statements it stands for.
Migrate_version_first ==
    /\ up /\ migrating \in 1..Statements
    /\ version' = SCHEMA_VERSION
    /\ IF migrating <= applied /\ ~Repeatable(migrating)
       THEN migrating' = 0 /\ UNCHANGED <<applied, store, listing>>
       ELSE /\ applied' = IF migrating > applied THEN migrating ELSE applied
            /\ IF migrating = Statements THEN StoreOpens
               ELSE migrating' = migrating + 1 /\ UNCHANGED <<store, listing>>
    /\ UNCHANGED <<order, up, secrets, writes, torn>>

\* A statement that is in the file already is an error, and the launch goes on
\* without a store.
Migrate ==
    /\ up /\ migrating > 0
    /\ IF migrating > Statements THEN version' = SCHEMA_VERSION /\ StoreOpens /\ UNCHANGED applied
       ELSE /\ UNCHANGED version
            /\ IF migrating <= applied /\ ~Repeatable(migrating)
               THEN migrating' = 0 /\ UNCHANGED <<applied, store, listing>>
               ELSE /\ migrating' = migrating + 1
                    /\ applied' = IF migrating > applied THEN migrating ELSE applied
                    /\ UNCHANGED <<store, listing>>
    /\ UNCHANGED <<order, up, secrets, writes, torn>>

\* A statement the disk has no room for: the same, and the file stays between
\* two versions.
MigrateFails ==
    /\ up /\ migrating > 0 /\ ~torn
    /\ migrating' = 0 /\ torn' = TRUE
    /\ UNCHANGED <<onDisk, up, store, listing, secrets, writes>>

\* The process ends, anywhere.  What it remembered goes with it.
ProcessEnds ==
    /\ up /\ up' = FALSE
    /\ store' = "none" /\ migrating' = 0 /\ listing' = <<>>
    /\ cache' = [c \in Kept |-> Unread] /\ reads' = {} /\ raced' = {}
    /\ torn' = (torn \/ migrating > 0)
    /\ UNCHANGED <<onDisk, keychain, writes>>
-----------------------------------------------------------------------------
Running == up /\ migrating = 0
WriteUnderBound == writes < MaxKept /\ writes' = writes + 1

\* The connection's password is written, or deleted when it is blank.  What
\* the Keychain refuses to write is not remembered; what it refuses to delete
\* is taken for deleted.
UnderRead(c) == \E r \in reads : r.connection = c

SetPassword(c, password) ==
    \/ /\ keychain' = [keychain EXCEPT ![c] = password]
       /\ cache' = [cache EXCEPT ![c] = password]
       /\ raced' = IF UnderRead(c) THEN raced \cup {c} ELSE raced \ {c}
    \/ /\ password = NoPassword
       /\ cache' = [cache EXCEPT ![c] = NoPassword]
       /\ raced' = raced \cup {c}
       /\ UNCHANGED keychain
    \/ password # NoPassword /\ UNCHANGED <<keychain, cache, raced>>

\* A connection is kept, new ones last, with the password that was typed if
\* one was, which is kept even where the file refuses the connection; without a
\* store neither is.
KeepConnection ==
    /\ Running /\ store = "open" /\ WriteUnderBound
    /\ \E c \in Kept :
          /\ \/ order' = order
             \/ ~Contains(order, c) /\ order' = Append(order, c)
          /\ \/ UNCHANGED <<keychain, cache, raced>>
             \/ \E password \in Passwords \cup {NoPassword} : SetPassword(c, password)
    /\ listing' = order'
    /\ UNCHANGED <<version, applied, up, store, migrating, reads, torn>>

\* The password goes with its connection, unless the file refuses.
DropConnection ==
    /\ Running /\ store = "open" /\ WriteUnderBound
    /\ \E c \in ToSet(listing) :
          \/ UNCHANGED <<order, keychain, cache, raced>>
          \/ /\ \E i \in DOMAIN order : order[i] = c /\ order' = RemoveAt(order, i)
             /\ SetPassword(c, NoPassword)
    /\ listing' = order'
    /\ UNCHANGED <<version, applied, up, store, migrating, reads, torn>>

\* A connection is opened or tried, and its password is asked for when it was
\* not yet: off the window's thread.
AskKeychain ==
    /\ Running /\ Cardinality(reads) < MaxReads
    /\ \E c \in ToSet(listing) :
          /\ cache[c] = Unread
          /\ reads' = reads \cup {[connection |-> c, answer |-> Unread]}
    /\ UNCHANGED <<onDisk, up, store, migrating, listing, keychain, cache, writes, torn, raced>>

KeychainAnswers ==
    \E r \in reads :
        /\ r.answer = Unread
        /\ reads' = (reads \ {r}) \cup {[r EXCEPT !.answer = keychain[r.connection]]}
        /\ UNCHANGED <<onDisk, up, store, migrating, listing, keychain, cache, writes, torn, raced>>

KeychainRefuses ==
    \E r \in reads :
        /\ r.answer = Unread /\ reads' = reads \ {r}
        /\ UNCHANGED <<onDisk, up, store, migrating, listing, keychain, cache, writes, torn, raced>>

Remember ==
    \E r \in reads :
        /\ r.answer # Unread /\ reads' = reads \ {r}
        /\ cache' = [cache EXCEPT ![r.connection] = r.answer]
        /\ UNCHANGED <<onDisk, up, store, migrating, listing, keychain, writes, torn, raced>>

LocalNext ==
    \/ ProcessStarts \/ Migrate \/ MigrateFails \/ ProcessEnds
    \/ KeepConnection \/ DropConnection
    \/ AskKeychain \/ KeychainAnswers \/ KeychainRefuses \/ Remember

LocalSpec == LocalInit /\ [][LocalNext]_storeVars
-----------------------------------------------------------------------------
\* A store that is open has every statement of the schema behind it, and one
\* that will not open is of a file a migration was cut short on.
OpensWhole ==
    /\ store = "open" => applied = Statements /\ version = SCHEMA_VERSION
    /\ Running /\ store = "none" => torn

\* The sidebar lists the file's connections, in its order, each once.
ListsTheFile ==
    store = "open" => listing = order /\ IsInjective(order)

\* What the process remembers of a password is what the Keychain holds, unless
\* it was written under a read or not deleted when asked to.
RemembersTheKeychain ==
    \A c \in Kept \ raced : cache[c] \in {Unread, keychain[c]}

\* The local file opens whole or not at all, and is listed as it is; what is
\* remembered of the Keychain is what it holds, outside of a race.
LocalHolds == OpensWhole /\ ListsTheFile /\ RemembersTheKeychain
===================================================================================
