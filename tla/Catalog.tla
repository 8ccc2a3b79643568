------------------------------ MODULE Catalog -------------------------------
(***************************************************************************)
(* The capability files and the people who write them: discovery           *)
(* (discover.py) records an artifact, `hands review` (cli.py, artifact.py) *)
(* signs its risk labels, and editors change it by hand.  Every program    *)
(* reads a file whole, works on what it read, and writes with write_text:  *)
(* truncate, then fill; nobody locks a file.                               *)
(***************************************************************************)
EXTENDS Integers

CONSTANTS
  Names,      \* the capabilities, one file each
  Versions,   \* what the signed content can be: steps, conditions, outputs
  Risky,      \* the versions with a risky step
  Operators,  \* the spellings of names that operators give
  Person,     \* spelling -> person, what casefold and strip make equal
  MaxWrites   \* bound: recordings, reviews and edits

Nobody == "nobody"  \* recorded_by or reviewed_by is None

ASSUME CatalogAssumption ==
  /\ Risky \subseteq Versions
  /\ Nobody \notin Operators
  /\ MaxWrites \in Nat

Signatories == Operators \cup {Nobody}

\* A risk hash is as good as what it hashes; unsigned, it hashes nobody's review.
Contents  == [version : Versions, maker : Signatories, by : Signatories]
Artifacts == [content : Contents, hash : Contents]

Writes == [name : Names, artifact : Artifacts, begun : BOOLEAN]

VARIABLES
  files,    \* name -> the artifact, and whether the file can be read as one
  writes,   \* write_text calls under way
  written,  \* how many there were
  signed    \* history: the contents somebody signed with `hands review`

catalogVars == <<files, writes, written, signed>>

CatalogTypeOK ==
  /\ files \in [Names -> [whole : BOOLEAN, artifact : Artifacts]]
  /\ writes \subseteq Writes
  /\ written \in 0 .. MaxWrites
  /\ signed \subseteq Contents

-----------------------------------------------------------------------------
\* Names compared as they are spelled.
SameSpelling(a, b) == a = b

\* same_operator: nobody is the same as nobody.
SameOperator(a, b) == Nobody \notin {a, b} /\ Person[a] = Person[b]

\* risk_review_valid: recomputed over content, maker and reviewer.
ReviewValid(a) == a.content.by # Nobody /\ a.hash = a.content

Unsigned(version, maker) ==
  LET content == [version |-> version, maker |-> maker, by |-> Nobody]
  IN [content |-> content, hash |-> content]

\* Without a review; HANDS_OPERATOR, the maker, may be unset.
Unreviewed == {Unsigned(version, maker) : version \in Versions, maker \in Signatories}

\* sign_risk_review: it hashes the content with the reviewer's name in it.
SignedBy(a, reviewer) ==
  LET content == [a.content EXCEPT !.by = reviewer]
  IN [content |-> content, hash |-> content]

CallWrite(n, a) ==
  /\ written < MaxWrites
  /\ written' = written + 1
  /\ writes' = writes \cup {[name |-> n, artifact |-> a, begun |-> FALSE]}
  /\ UNCHANGED files

\* discover() writes a new artifact, whatever the file was before.
Discover(n) ==
  /\ \E a \in Unreviewed : CallWrite(n, a)
  /\ UNCHANGED signed

\* `hands review`: load, refuse the maker, sign, write; the file may change
\* between its load and its write.
Review(n) ==
  /\ files[n].whole
  /\ \E reviewer \in Operators :
       LET a == files[n].artifact IN
       /\ ~SameOperator(reviewer, a.content.maker)
       /\ CallWrite(n, SignedBy(a, reviewer))
       /\ signed' = signed \cup {SignedBy(a, reviewer).content}

\* An editor saves the file with other steps, another of the two names, or several
\* of them changed.  Computing a hash is left to `hands review`.
EditByHand(n) ==
  /\ files[n].whole
  /\ \E content \in Contents :
       /\ content # files[n].artifact.content
       /\ CallWrite(n, [files[n].artifact EXCEPT !.content = content])
  /\ UNCHANGED signed

\* write_text opens the file: what was in it is gone.
Truncate(w) ==
  /\ w \in writes
  /\ ~w.begun
  /\ writes' = (writes \ {w}) \cup {[w EXCEPT !.begun = TRUE]}
  /\ files' = [files EXCEPT ![w.name].whole = FALSE]
  /\ UNCHANGED <<written, signed>>

Fill(w) ==
  /\ w \in writes
  /\ w.begun
  /\ writes' = writes \ {w}
  /\ files' = [files EXCEPT ![w.name] = [whole |-> TRUE, artifact |-> w.artifact]]
  /\ UNCHANGED <<written, signed>>

\* The writer is killed; a file it had opened stays torn.
WriterDies(w) ==
  /\ w \in writes
  /\ writes' = writes \ {w}
  /\ UNCHANGED <<files, written, signed>>

\* Every file starts out as discovery left it.
CatalogInit ==
  /\ files \in [Names -> [whole : {TRUE}, artifact : Unreviewed]]
  /\ signed = {}
  /\ writes = {}
  /\ written = 0

CatalogNext ==
  \/ \E n \in Names : Discover(n) \/ Review(n) \/ EditByHand(n)
  \/ \E w \in writes : Truncate(w) \/ Fill(w) \/ WriterDies(w)
=============================================================================
