------------------------------ MODULE RedisKey ------------------------------
(***************************************************************************)
(* db_redis/src/keys.rs: a key's contents in pages, for a caller that      *)
(* follows the cursors (the window reads the first page).  Every page is a *)
(* round trip for the length and one for the elements, and other clients   *)
(* put elements in, anywhere the type lets them, and take them out between *)
(* any two.  A list and a sorted set are paged by position, a stream by    *)
(* the last id it saw, a hash and a set fetched whole when they are small, *)
(* and walked by bucket when not.                                          *)
(*                                                                         *)
(* An element is a number.  Of a stream it is the id, which only grows, of *)
(* a hash the bucket, of a list no more than a name: a list element that   *)
(* is set, or a member whose score changes, is one taken out and another   *)
(* put in.  A key that is deleted and made again is left out.              *)
(***************************************************************************)
EXTENDS Integers, Sequences, FiniteSets, SequencesExt

CONSTANTS
    Limit,        \* elements of a page
    MaxElements,  \* bound: elements there ever are; a hash has as many buckets
    MaxRemovals   \* bound: elements removed

\* `read' asks for one element at least.
ASSUME KeyAssumption ==
    /\ Limit \in Nat \ {0}
    /\ MaxElements \in Nat /\ MaxRemovals \in Nat

VARIABLES
    kind,     \* what the key holds
    content,  \* its elements, in the server's order
    ever,     \* the elements there ever were
    at,       \* "length", "elements", "between" two pages, or "done"
    total,    \* the length, as last asked for
    from,     \* the cursor handed back: a position, an id, a bucket
    shown,    \* the rows of the pages so far
    stayed,   \* elements there since before the first page
    slid,     \* what moved the positions of a list under its cursor
    removed   \* elements removed so far

keyVars == <<kind, content, ever, at, total, from, shown, stayed, slid, removed>>
world == <<kind, content, ever, stayed, slid, removed>>

Kinds == {"list", "stream", "hash"}
Elements == 1..MaxElements

KeyInit ==
    /\ kind \in Kinds
    /\ \E n \in 0..MaxElements : content \in [1..n -> Elements]
    /\ \A i, j \in DOMAIN content : i < j => content[i] < content[j]
    /\ ever = Range(content) /\ stayed = ever
    /\ at = "between" /\ total = 0 /\ from = 0 /\ shown = <<>>
    /\ slid = {} /\ removed = 0

\* `read': the next page starts where the last one's cursor says.
Read ==
    /\ at = "between"
    /\ at' = "length"
    /\ UNCHANGED <<world, total, from, shown>>

\* LLEN, ZCARD, XLEN, HLEN, SCARD.
AskLength ==
    /\ at = "length"
    /\ total' = Len(content) /\ at' = "elements"
    /\ UNCHANGED <<world, from, shown>>

\* The page is drawn; `more' is the cursor of the next one, or none.
Page(rows, more, next) ==
    /\ shown' = shown \o rows
    /\ from' = next
    /\ at' = IF more THEN "between" ELSE "done"
    /\ UNCHANGED <<world, total>>

\* `read_list', `read_sorted_set': more is what the length promised.
ReadList ==
    /\ kind = "list" /\ at = "elements"
    /\ LET rows == SubSeq(content, from + 1, IF from + Limit < Len(content) THEN from + Limit ELSE Len(content))
           next == from + Len(rows)
       IN Page(rows, next < total, next)

\* How many of the elements are of this id, or of buckets up to this one.
UpToElement(e) == {n \in 0..Len(content) : \A i \in 1..Len(content) : i <= n <=> content[i] <= e}

\* `read_stream': more when the page is full, and the cursor excludes the
\* last id it saw.
\* Slip: the cursor includes it.
ReadStream_inclusive ==
    /\ kind = "stream" /\ at = "elements"
    /\ \E seen \in UpToElement(from - 1) :
          LET end == IF seen + Limit < Len(content) THEN seen + Limit ELSE Len(content)
          IN Page(SubSeq(content, seen + 1, end), end - seen = Limit,
                  IF end = seen THEN from ELSE content[end])

ReadStream ==
    /\ kind = "stream" /\ at = "elements"
    /\ \E seen \in UpToElement(from) :
          LET end == IF seen + Limit < Len(content) THEN seen + Limit ELSE Len(content)
          IN Page(SubSeq(content, seen + 1, end), end - seen = Limit,
                  IF end = seen THEN from ELSE content[end])

\* `read_hash', `read_set': whole when the length said it fits, else *SCAN on
\* from the cursor, which looks at one bucket at least and at the last one says
\* so with a cursor of 0.  While the table is made larger or smaller it may
\* return elements of buckets behind the cursor again: here one, for any number.
ReadHash ==
    /\ kind = "hash" /\ at = "elements"
    /\ IF from = 0 /\ total <= Limit
         THEN Page(content, FALSE, 0)
         ELSE \E bucket \in (from + 1)..MaxElements :
                \E seen \in UpToElement(from), end \in UpToElement(bucket) :
                  \E again \in {<<>>} \cup {<<content[i]>> : i \in 1..seen} :
                    Page(SubSeq(content, seen + 1, end) \o again, bucket < MaxElements,
                         IF bucket < MaxElements THEN bucket ELSE 0)

\* Other clients: LPUSH, LINSERT, RPUSH, ZADD; XADD; HSET, SADD.  One that goes
\* into a list before the cursor moves what was shown behind it, and one that
\* goes in between the length and the elements moves the last out of the length.
Put(e, i) ==
    /\ e \in Elements \ ever
    /\ kind = "stream" => \A d \in ever : d < e
    /\ kind # "list" => \A j \in 1..Len(content) : j < i <=> content[j] < e
    /\ ever' = ever \cup {e} /\ content' = InsertAt(content, i, e)
    /\ slid' = slid \cup (IF kind = "list" /\ i <= from THEN {"repeats"} ELSE {})
                    \cup (IF kind = "list" /\ i <= Len(content) /\ at = "elements" THEN {"skips"} ELSE {})
    /\ UNCHANGED <<kind, at, total, from, shown, stayed, removed>>

\* LREM, LPOP, ZREM; XDEL, XTRIM; HDEL, SREM.  One that goes out of a list before
\* the cursor moves the next one in front of it.
Withdraw(i) ==
    /\ removed < MaxRemovals /\ removed' = removed + 1
    /\ content' = RemoveAt(content, i)
    /\ stayed' = stayed \ {content[i]}
    /\ slid' = slid \cup (IF kind = "list" /\ i <= from THEN {"skips"} ELSE {})
    /\ UNCHANGED <<kind, ever, at, total, from, shown>>

KeyNext ==
    \/ Read \/ AskLength \/ ReadList \/ ReadStream \/ ReadHash
    \/ \E e \in Elements, i \in 1..(Len(content) + 1) : Put(e, i)
    \/ \E i \in 1..Len(content) : Withdraw(i)

KeyWorks == Read \/ AskLength \/ ReadList \/ ReadStream \/ ReadHash
KeyFairness == WF_keyVars(KeyWorks)

KeySpec == KeyInit /\ [][KeyNext]_keyVars /\ KeyFairness
-----------------------------------------------------------------------------
Drawn == Range(shown)

\* When the pages are over, what was there all along has been shown, of a list
\* unless its positions slid: one went out before the cursor, or one went in
\* between a page's length and its elements.
PagesMissNothing == at = "done" /\ "skips" \notin slid => stayed \subseteq Drawn

\* A stream's entries come in their order and each once ("rather than repeating
\* its last row", keys.rs:331), and so does an element of a list, unless one went
\* in before the cursor.  A hash or a set that is walked promises no such thing.
PagesRepeatNothing ==
    /\ kind = "stream" => \A i, j \in DOMAIN shown : i < j => shown[i] < shown[j]
    /\ kind = "list" /\ "repeats" \notin slid => IsInjective(shown)

\* The pages of a key miss and repeat no more than their cursors let them.
KeyPages == PagesMissNothing /\ PagesRepeatNothing

\* The pages come to an end.
PagesEnd == <>(at = "done")
=============================================================================
