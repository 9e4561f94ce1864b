-------------------------------- MODULE Download --------------------------------
(***************************************************************************)
(* One file of the model store: Store.Get (src/llm/model/store.go) over    *)
(* fetch.Fetch (src/fetch/fetch.go).  The download is written to a part    *)
(* that survives a crash and is resumed, and renamed when its size and     *)
(* digest are right.                                                       *)
(*                                                                         *)
(* The file is Blocks blocks.  A block on disk is its position in the file *)
(* it came from, and whether that file is the one the source described: a  *)
(* server may serve another version, more or less of it than it says, or   *)
(* answer a range it was not asked for.                                    *)
(***************************************************************************)
EXTENDS Naturals, Sequences

CONSTANTS Blocks,   \* length of the file
          Retries   \* opt.Retries

ASSUME DownloadAssumption == Blocks \in Nat \ {0} /\ Retries \in Nat

VARIABLES getPc,    \* where Get is
          part,     \* the blocks of the part file; NoFile
          hashed,   \* the blocks that the hash has seen: offset is its length
          total,    \* what the response says the file's length is
          answer,   \* the position and version of what the body sends next
          attempt,  \* of the current Fetch
          stored,   \* the blocks of the file at dst; NoFile
          spec,     \* what the source said: is the size, is a digest known
          overran   \* history: whether a write past the file's end failed half way

getVars == <<getPc, part, hashed, total, answer, attempt, stored, spec, overran>>

NoFile == <<[at |-> 0, good |-> FALSE]>>
Unknown == Blocks + 2
Block(p, g) == [at |-> p, good |-> g]
Genuine == [p \in 1 .. Blocks |-> Block(p, TRUE)]
offset == Len(hashed)

IsFile(f) == f = NoFile \/ \A i \in DOMAIN f : f[i].at \in 1 .. Blocks + 1 /\ f[i].good \in BOOLEAN
DownloadTypeOK ==
  /\ getPc \in {"idle", "fetch", "request", "read", "retry", "verify", "rename", "failed"}
  /\ IsFile(part) /\ IsFile(hashed) /\ IsFile(stored)
  /\ total \in 0 .. Unknown /\ attempt \in 0 .. Retries + 1
  /\ answer \in [at : 1 .. Blocks + 2, good : BOOLEAN]
  /\ spec \in [size : BOOLEAN, digest : BOOLEAN]
  /\ overran \in BOOLEAN

DownloadInit ==
  /\ getPc = "idle" /\ part = NoFile /\ hashed = <<>> /\ stored = NoFile
  /\ total = Unknown /\ attempt = 0 /\ answer = Block(1, TRUE)
  /\ spec \in [size : BOOLEAN, digest : BOOLEAN]
  /\ overran = FALSE

\* Get skips a file that is there, with the right size when one is known.
Get ==
  /\ getPc = "idle"
  /\ ~(stored # NoFile /\ (spec.size => Len(stored) = Blocks))
  /\ getPc' = "fetch"
  /\ UNCHANGED <<part, hashed, total, answer, attempt, stored, spec, overran>>

\* Fetch opens the part and rehashes what an earlier call left: a part longer
\* than the file is emptied.
Open ==
  /\ getPc = "fetch" /\ getPc' = "request" /\ attempt' = 0
  /\ part' = IF part = NoFile \/ (spec.size /\ Len(part) > Blocks) THEN <<>> ELSE part
  /\ hashed' = part'
  /\ total' = IF spec.size THEN Blocks ELSE Unknown
  /\ UNCHANGED <<answer, stored, spec, overran>>

\* restart truncates the part and empties the hash.
Restart_KeepsPart == UNCHANGED part /\ hashed' = <<>>
Restart == part' = <<>> /\ hashed' = <<>>
Again == getPc' = "retry" /\ UNCHANGED <<total, answer>>
\* An error for good; a part that holds nothing is removed with it.
GivesUp == /\ getPc' = "failed" /\ hashed' = <<>>
           /\ part' = IF offset = 0 THEN NoFile ELSE part

\* A 206, or a 200 after which the part starts over, whose length fits what
\* the source said.
Reads(t, from, g) ==
  /\ spec.size => t \in {Blocks, Unknown}
  /\ getPc' = "read" /\ answer' = Block(from, g)
  /\ total' = IF t = Unknown THEN total ELSE t

Lengths == (0 .. Blocks + 1) \cup {Unknown}

Partial ==
  /\ getPc = "request"
  /\ \/ /\ \E t \in Lengths, g \in BOOLEAN : Reads(t, offset + 1, g)
        /\ UNCHANGED <<part, hashed>>
     \/ Restart /\ Again
  /\ UNCHANGED <<attempt, stored, spec, overran>>

Full ==
  /\ getPc = "request"
  /\ \E t \in Lengths, g \in BOOLEAN : Reads(t, 1, g)
  /\ IF offset > 0 THEN Restart ELSE UNCHANGED <<part, hashed>>
  /\ UNCHANGED <<attempt, stored, spec, overran>>

\* The server's length is not the source's: the part goes, there is no retry.
WrongLength ==
  /\ getPc = "request" /\ spec.size
  /\ getPc' = "failed" /\ part' = NoFile /\ hashed' = <<>>
  /\ UNCHANGED <<total, answer, attempt, stored, spec, overran>>

\* 416: the part is the whole file, or it cannot be continued; asking again
\* would not help, and an emptied part is removed.
NotSatisfiable ==
  /\ getPc = "request"
  /\ \/ /\ spec.size /\ offset = Blocks /\ getPc' = "verify"
        /\ UNCHANGED <<part, hashed>>
     \/ /\ ~(spec.size /\ offset = Blocks) /\ getPc' = "failed"
        /\ part' = NoFile /\ hashed' = <<>>
  /\ UNCHANGED <<total, answer, attempt, stored, spec, overran>>

\* Another status, an error of the request, or the end of the context.
Refused ==
  /\ getPc = "request"
  /\ \/ Again /\ UNCHANGED <<part, hashed>>
     \/ GivesUp /\ UNCHANGED <<total, answer>>
  /\ UNCHANGED <<attempt, stored, spec, overran>>

\* What the next block of the body makes of the part.
Written == SubSeq(part, 1, offset) \o <<answer>> \o SubSeq(part, offset + 2, Len(part))
MoreBody == getPc = "read" /\ offset <= Blocks /\ answer.at <= Blocks + 1

Read ==
  /\ MoreBody
  /\ part' = Written
  /\ hashed' = Append(hashed, answer)
  /\ answer' = [answer EXCEPT !.at = @ + 1]
  /\ UNCHANGED <<getPc, total, attempt, stored, spec, overran>>

\* A write of several blocks fails behind the first: that one is in the part, and
\* neither the hash nor the offset knows.  One that stores none is BodyBreaks.
WriteBreaks ==
  /\ MoreBody
  /\ overran' = (overran \/ offset >= Blocks)
  /\ \/ part' = Written /\ UNCHANGED hashed /\ getPc' = "retry"
     \/ getPc' = "failed" /\ hashed' = <<>> /\ part' = IF offset = 0 THEN NoFile ELSE Written
  /\ UNCHANGED <<total, answer, attempt, stored, spec>>

\* The body ends: whole if it is as long as the response said.
EndOfFile ==
  /\ getPc = "read"
  /\ getPc' = IF total # Unknown /\ offset < total THEN "retry" ELSE "verify"
  /\ UNCHANGED <<part, hashed, total, answer, attempt, stored, spec, overran>>

BodyBreaks ==
  /\ getPc = "read"
  /\ \/ getPc' = "retry" /\ UNCHANGED <<part, hashed>>
     \/ GivesUp
  /\ UNCHANGED <<total, answer, attempt, stored, spec, overran>>

Retry ==
  /\ getPc = "retry" /\ attempt' = attempt + 1
  /\ \/ attempt < Retries /\ getPc' = "request" /\ UNCHANGED <<part, hashed>>
     \/ GivesUp
  /\ UNCHANGED <<total, answer, stored, spec, overran>>

\* A wrong size or digest removes the part: resuming it only repeats it.
Verify ==
  /\ getPc = "verify"
  /\ IF (spec.size => offset = Blocks) /\ (spec.digest => hashed = Genuine)
     THEN getPc' = "rename" /\ UNCHANGED part
     ELSE getPc' = "failed" /\ part' = NoFile
  /\ UNCHANGED <<hashed, total, answer, attempt, stored, spec, overran>>

Rename ==
  /\ getPc = "rename" /\ getPc' = "idle"
  /\ stored' = part /\ part' = NoFile /\ hashed' = <<>>
  /\ UNCHANGED <<total, answer, attempt, spec, overran>>

\* The caller tries again later, or the app was killed, and another process
\* has swept the part in the meantime or left it.
AnotherDay ==
  /\ getPc # "idle" /\ getPc' = "idle"
  /\ part' \in {part, NoFile} /\ hashed' = <<>>
  /\ UNCHANGED <<total, answer, attempt, stored, spec, overran>>

DownloadNext ==
  \/ Get \/ Open \/ Partial \/ Full \/ WrongLength \/ NotSatisfiable \/ Refused
  \/ Read \/ WriteBreaks \/ EndOfFile \/ BodyBreaks \/ Retry \/ Verify \/ Rename \/ AnotherDay

DownloadSpec == DownloadInit /\ [][DownloadNext]_getVars
-----------------------------------------------------------------------------
\* What is found under the file's name are blocks in their places, never spliced,
\* after any number of crashes, resumes, ignored ranges and restarts; and unless
\* some write past the end of the file failed half way, it is what the source
\* described, as far as the source described it: the digest speaks of what is on
\* disk, not only of what this call wrote.
OnlyVerified == stored # NoFile =>
  /\ \A i \in DOMAIN stored : stored[i].at = i
  /\ ~overran => /\ spec.size => Len(stored) = Blocks
                 /\ spec.digest => stored = Genuine
===============================================================================
