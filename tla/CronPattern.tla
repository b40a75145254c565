------------------------------ MODULE CronPattern ------------------------------
(***************************************************************************)
(* Crontabs (pkg/cron/parser.go) and the minutes their items fire at: what *)
(* ParseCrontab makes of a crontab, and when the matcher it makes says     *)
(* yes.  A field is a list of parts, an option a key and whether its value *)
(* is well formed; splitting lines into words is left out.                 *)
(***************************************************************************)
EXTENDS Integers, Sequences, FiniteSets, Functions

\* What the regular expressions of a part tell apart.
Number(n) == [kind |-> "number", from |-> n, to |-> n]
Interval(a, b) == [kind |-> "range", from |-> a, to |-> b]
Wildcard == [kind |-> "wildcard", from |-> 1, to |-> 1]
Steps(n) == [kind |-> "wildcard", from |-> n, to |-> n]
Nonsense == [kind |-> "other", from |-> 0, to |-> 0]

\* Numbers have digits only.
IsPart(part) ==
  /\ part \in [kind : {"number", "range", "wildcard", "other"}, from : Nat, to : Nat]
  /\ part.kind = "number" => part.to = part.from

Bounds ==
  [minute |-> 0 .. 59, hour |-> 0 .. 23, date |-> 1 .. 31, month |-> 1 .. 12, dow |-> 0 .. 6]
Fields == DOMAIN Bounds
Lowest(f) == CHOOSE n \in Bounds[f] : \A m \in Bounds[f] : n <= m
Highest(f) == CHOOSE n \in Bounds[f] : \A m \in Bounds[f] : n >= m

(***************************************************************************)
(* parseCrontabRange.                                                      *)
(***************************************************************************)
\* The day of the week 7 is Sunday.
Wrap(f, n) == IF f = "dow" /\ n = Highest(f) + 1 THEN Lowest(f) ELSE n

PartError(f, part) ==
  \/ part.kind = "number" /\ Wrap(f, part.from) \notin Bounds[f]
  \/ part.kind = "range" /\ part.to <= part.from
  \/ part.kind = "wildcard" /\ part.from < 1
  \/ part.kind = "other"

\* The number each round of a part's loop appends.  Of a range the values out of
\* bounds are skipped, not refused.
PartNumbers(f, part) ==
  IF part.kind = "wildcard"
  THEN [i \in 0 .. (Highest(f) - Lowest(f)) \div part.from |-> Lowest(f) + i * part.from]
  ELSE [i \in {n \in part.from .. part.to : Wrap(f, n) \in Bounds[f]} |-> Wrap(f, i)]

\* (mutant) numbers stay as often as they are written
UniqueNot(lists) ==
  LET rounds == UNION {{<<lists[i][n], i, n>> : n \in DOMAIN lists[i]} : i \in DOMAIN lists}
      Before(q, r) ==
        \/ q[1] < r[1]
        \/ q[1] = r[1] /\ (q[2] < r[2] \/ (q[2] = r[2] /\ q[3] < r[3]))
  IN [k \in 1 .. Cardinality(rounds) |->
        (CHOOSE r \in rounds : Cardinality({q \in rounds : Before(q, r)}) = k - 1)[1]]

\* Sorted and without what equals its predecessor: the kth is the one that k - 1
\* others precede.
Unique(lists) ==
  LET numbers == UNION {Range(lists[i]) : i \in DOMAIN lists}
  IN [k \in 1 .. Cardinality(numbers) |->
        CHOOSE n \in numbers : Cardinality({m \in numbers : m < n}) = k - 1]

FieldError(f, parts) == \E i \in DOMAIN parts : PartError(f, parts[i])

ParseField(f, parts) ==
  Unique([i \in DOMAIN parts |-> PartNumbers(f, parts[i])])

(***************************************************************************)
(* Options and lines.                                                      *)
(***************************************************************************)
OptionKeys == {"id", "fill", "max", "queue", "priority", "jobKey"}

OptionsError(options) ==
  \/ \E i \in DOMAIN options : options[i].key \notin OptionKeys \/ ~options[i].valid
  \/ \E i, j \in DOMAIN options : i # j /\ options[i].key = options[j].key

HasOption(line, key) == \E i \in DOMAIN line.options : line.options[i].key = key

LineError(line) ==
  \/ \E f \in Fields : FieldError(f, line.pattern[f])
  \/ OptionsError(line.options)
  \/ line.payload = "malformed"

Parse(line) ==
  [numbers    |-> [f \in Fields |-> ParseField(f, line.pattern[f])],
   identifier |-> IF HasOption(line, "id") THEN line.id ELSE line.task]

\* validateUniqueIdentifiers
Duplicates(items) ==
  \E i, j \in DOMAIN items : i # j /\ items[i].identifier = items[j].identifier

ItemsOf(crontab) == [i \in DOMAIN crontab |-> Parse(crontab[i])]

CrontabError(crontab) ==
  (\E i \in DOMAIN crontab : LineError(crontab[i])) \/ Duplicates(ItemsOf(crontab))

(***************************************************************************)
(* createArrayMatcher, and matchesLegacy alike.                            *)
(***************************************************************************)
Holds(item, f, digest) == digest[f] \in Range(item.numbers[f])

\* A day matches either list if both leave days out.
DayMatches(item, digest) ==
  LET dateIsExclusionary == Len(item.numbers["date"]) # 31
      dowIsExclusionary == Len(item.numbers["dow"]) # 7
  IN IF dateIsExclusionary /\ dowIsExclusionary
     THEN Holds(item, "date", digest) \/ Holds(item, "dow", digest)
     ELSE /\ dateIsExclusionary => Holds(item, "date", digest)
          /\ dowIsExclusionary => Holds(item, "dow", digest)

Matches(item, digest) ==
  /\ Holds(item, "minute", digest)
  /\ Holds(item, "hour", digest)
  /\ Holds(item, "month", digest)
  /\ DayMatches(item, digest)

(***************************************************************************)
(* What a pattern means, said of the parts alone (docs/CRONTAB.md).        *)
(***************************************************************************)
\* "all valid values divisible by n"
Means(f, part, n) ==
  \/ part.kind = "wildcard" /\ n % part.from = 0
  \/ /\ part.kind # "wildcard"
     /\ \/ part.from <= n /\ n <= part.to
        \/ f = "dow" /\ n = 0 /\ part.from <= 7 /\ 7 <= part.to

Written(pattern, f, n) == \E i \in DOMAIN pattern[f] : Means(f, pattern[f][i], n)

\* The loop of the parser starts at the lowest value, which is divisible by
\* every step but in the fields that have no 0.
StepsAgree(pattern) ==
  \A f \in Fields : \A part \in Range(pattern[f]) :
    part.kind = "wildcard" => part.from > 0 /\ Lowest(f) % part.from = 0

Restricts(pattern, f) == \E n \in Bounds[f] : ~Written(pattern, f, n)

FiresAt(pattern, digest) ==
  /\ \A f \in {"minute", "hour", "month"} : Written(pattern, f, digest[f])
  /\ LET days == {f \in {"date", "dow"} : Restricts(pattern, f)}
     IN days = {} \/ \E f \in days : Written(pattern, f, digest[f])
===============================================================================
