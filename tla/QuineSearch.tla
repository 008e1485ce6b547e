------------------------------- MODULE QuineSearch -------------------------------
(***************************************************************************)
(* herostratus-quine: searches the values of a field in a commit message   *)
(* for one that makes the hash of the commit begin with that value, or     *)
(* with a prefix somebody foretold (main.rs, search.rs, commit.rs).  The   *)
(* space is split over threads that end early when one of them succeeds.   *)
(* SHA-1 is any function from fields to hashes; the word size, the digits  *)
(* and the batch are parameters.                                           *)
(***************************************************************************)
EXTENDS Enumeration

CONSTANTS
  DigitBits,      \* bits of a digit: 4
  WordBits,       \* bits of a u64
  BatchSize,      \* BATCH_SIZE: candidates between two looks at the flag
  MinLen, MaxLen, \* 4 and 16: digits in the field, and in a target
  PrefixLens,     \* --prefix-len as given,
  ThreadCounts,   \* --threads,
  Targets,        \* --target-prefix: digits, or Nothing
  Hashes,         \* Hashes[n]: functions from fields of n digits to bytes
  NotLowerHex,    \* a character of a target that is not a lower-case digit
  Nothing

\* 1 << n.
Bit(n) == LET to[k \in 0 .. n] == IF k = 0 THEN 1 ELSE 2 * to[k - 1] IN to[n]

Base   == Bit(DigitBits)
Digit  == 0 .. Base - 1

ASSUME SearchAssumption ==
  /\ DigitBits \in Nat \ {0} /\ WordBits \in Nat \ {0} /\ BatchSize \in Nat \ {0}
  /\ MinLen \in Nat /\ MaxLen \in Nat
ASSUME ArgumentsAssumption ==
  /\ PrefixLens \subseteq Nat /\ ThreadCounts \subseteq Nat /\ Nothing \notin Nat
  /\ \A t \in Targets : t = Nothing \/ t \in Seq(Digit \cup {NotLowerHex})
\* A hash is for every field, and no shorter than what is looked for.
ASSUME Sha1Assumption ==
  \A n \in MinLen .. MaxLen : \A h \in Hashes[n] :
    /\ DOMAIN h = [1 .. n -> Digit]
    /\ \A field \in DOMAIN h : /\ h[field] \in Seq(0 .. Base * Base - 1)
                               /\ 2 * Len(h[field]) >= MaxLen

VARIABLES
  stage,      \* where main is
  args,       \* prefix_len, threads, parent and target
  hash,       \* what SHA-1 gives for each field in this template
  found,      \* the flag
  worker,     \* the state of each thread
  printed,    \* the commit written to stdout, or Nothing
  late        \* ghost: candidates each thread tried after one had found a match

searchVars == <<stage, args, hash, found, worker, printed, late>>

-----------------------------------------------------------------------------
\* encode_hex
EncodeHex(value, len) == [i \in 1 .. len |-> (value \div Bit(DigitBits * (len - i))) % Base]

\* parse_target_prefix
ParseTargetPrefix(t) ==
  LET value[n \in 0 .. Len(t)] == IF n = 0 THEN 0 ELSE value[n - 1] * Base + t[n]
  IN  [value |-> value[Len(t)], len |-> Len(t)]

ValidTarget(t) ==
  /\ Len(t) >= MinLen /\ Len(t) <= MaxLen
  /\ \A i \in DOMAIN t : t[i] # NotLowerHex

\* matches_prefix: whole bytes, and a single digit when the length is odd.
MatchesPrefix(bytes, value, len) ==
  /\ \A i \in 1 .. len \div 2 : bytes[i] = (value \div Bit(DigitBits * (len - 2 * i))) % (Base * Base)
  /\ len % 2 = 1 => bytes[len \div 2 + 1] \div Base = value % Base

\* CommitTemplate: the size in the header is taken with a field of zeros.
Template(len, parent, target) ==
  [parent |-> parent, field |-> IF target = Nothing THEN "Hash" ELSE "Nonce", size |-> len]

\* str::starts_with
Begins(prefix, s) == Len(prefix) <= Len(s) /\ \A i \in DOMAIN prefix : s[i] = prefix[i]

BuildFullObject(template, field) == [template |-> template, value |-> field]
Sha1(object) == hash[object.value]
HexDigits(bytes) ==
  [i \in 1 .. 2 * Len(bytes) |->
     IF i % 2 = 1 THEN bytes[(i + 1) \div 2] \div Base ELSE bytes[i \div 2] % Base]

-----------------------------------------------------------------------------
SearchInit ==
  /\ stage = "start" /\ args = Nothing /\ hash = <<>>
  /\ found = FALSE /\ worker = <<>> /\ printed = Nothing /\ late = <<>>

\* 1u64 << (prefix_len * 4), the amount taken modulo the width in a release build.
Total == Bit((DigitBits * args.prefix_len) % WordBits)

\* Mutant: the threads get equal shares and nobody the remainder.
ThreadRangeEven(n, t, total) == [start |-> (total \div n) * (t - 1), end |-> (total \div n) * t]

\* The candidates of thread t of n; the last one takes the remainder.
ThreadRange(n, t, total) ==
  LET chunk == total \div n
  IN  [start |-> chunk * (t - 1), end |-> IF t = n THEN total ELSE chunk * t]

\* What main checks before it searches, author included.
Accepted(a, author) ==
  /\ a.prefix_len >= MinLen /\ a.prefix_len <= MaxLen
  /\ a.target # Nothing => a.parent /\ ValidTarget(a.target)
  /\ author

Main(a, author) ==
  /\ stage = "start"
  /\ args' = a
  /\ IF Accepted(a, author)
     THEN stage' = "search" /\ hash' \in Hashes[a.prefix_len]
     ELSE stage' = "refused" /\ UNCHANGED hash
  /\ UNCHANGED <<found, worker, printed, late>>

\* The division by the number of threads panics when there is none.
Spawn ==
  /\ stage = "search" /\ worker = <<>>
  /\ IF args.threads = 0
     THEN stage' = "panicked" /\ UNCHANGED <<worker, late>>
     ELSE /\ worker' = [t \in 1 .. args.threads |->
                          LET range == ThreadRange(args.threads, t, Total)
                          IN  [pc |-> "turn", next |-> range.start, end |-> range.end,
                               since |-> 0, result |-> Nothing]]
          /\ late' = [t \in 1 .. args.threads |-> 0]
          /\ UNCHANGED stage
  /\ UNCHANGED <<args, hash, found, printed>>

\* The head of the loop in search_range: the flag is read once in a batch.
Turn(t) ==
  /\ worker[t].pc = "turn"
  /\ LET w == worker[t]
         polls == w.since + 1 >= BatchSize
     IN  worker' = [worker EXCEPT ![t] =
           IF w.next = w.end \/ (polls /\ found) THEN [w EXCEPT !.pc = "done"]
           ELSE [w EXCEPT !.pc = "try", !.since = IF polls THEN 0 ELSE @ + 1]]
  /\ UNCHANGED <<stage, args, hash, found, printed, late>>

Matches(candidate) ==
  LET sought == IF args.target = Nothing
                THEN [value |-> candidate, len |-> args.prefix_len]
                ELSE ParseTargetPrefix(args.target)
  IN  MatchesPrefix(hash[EncodeHex(candidate, args.prefix_len)], sought.value, sought.len)

\* Mutant: the flag is not raised.
RaisedNever(hit) == found

Raised(hit) == found \/ hit

\* The body of the loop.
Try(t) ==
  /\ worker[t].pc = "try"
  /\ LET w   == worker[t]
         hit == Matches(w.next)
     IN  /\ worker' = [worker EXCEPT ![t] =
                 IF hit THEN [w EXCEPT !.pc = "done", !.result = w.next]
                 ELSE [w EXCEPT !.pc = "turn", !.next = @ + 1]]
         /\ found' = Raised(hit)
  /\ late' = IF \E u \in DOMAIN worker : worker[u].result # Nothing
             THEN [late EXCEPT ![t] = @ + 1] ELSE late
  /\ UNCHANGED <<stage, args, hash, printed>>

\* All threads have ended; the first result in their order is verified by hashing
\* the whole commit, and written.
Join ==
  /\ stage = "search" /\ worker # <<>>
  /\ \A t \in DOMAIN worker : worker[t].pc = "done"
  /\ LET hits == {t \in DOMAIN worker : worker[t].result # Nothing}
         candidate == worker[FirstOf(hits)].result
         field     == EncodeHex(candidate, args.prefix_len)
         object    == BuildFullObject(Template(args.prefix_len, args.parent, args.target), field)
         sought    == IF args.target = Nothing THEN field ELSE args.target
     IN  IF hits = {} THEN stage' = "exhausted" /\ UNCHANGED printed
         ELSE IF Begins(sought, HexDigits(Sha1(object)))
              THEN stage' = "found" /\ printed' = object
              ELSE stage' = "unverified" /\ UNCHANGED printed
  /\ UNCHANGED <<args, hash, found, worker, late>>

SearchNext ==
  \/ \E n \in PrefixLens, k \in ThreadCounts, p \in BOOLEAN, t \in Targets, author \in BOOLEAN :
       Main([prefix_len |-> n, threads |-> k, parent |-> p, target |-> t], author)
  \/ Spawn \/ Join
  \/ \E t \in DOMAIN worker : Turn(t) \/ Try(t)

SearchSpec == SearchInit /\ [][SearchNext]_searchVars

-----------------------------------------------------------------------------
\* Where the space of fields fits in a word, the search says that there is no
\* match only if there is none, however the threads stop each other; what it
\* prints is a commit whose field or target is how its own hash begins, of the
\* size its header says; and no result fails the verification.
SearchIsRight ==
  LET fits == DigitBits * args.prefix_len < WordBits
      good(field) == Begins(IF args.target = Nothing THEN field ELSE args.target,
                            HexDigits(hash[field]))
  IN  /\ stage # "unverified"
      /\ stage = "exhausted" /\ fits => \A field \in DOMAIN hash : ~good(field)
      /\ stage = "found" => /\ good(printed.value)
                            /\ printed.template.size = Len(printed.value)
                            /\ args.target # Nothing => printed.template.parent

\* Once a thread has found a match, no other tries more than a batch.
StopsWithinABatch == \A t \in DOMAIN late : late[t] <= BatchSize
=============================================================================
