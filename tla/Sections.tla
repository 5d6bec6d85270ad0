------------------------------ MODULE Sections ------------------------------
(***************************************************************************)
(* The Markdown parser: a scan over the lines of a file that closes a      *)
(* block at every heading and gives each block the path of headings above  *)
(* it, which becomes the location in a citation.                           *)
(***************************************************************************)
EXTENDS Naturals, Sequences, SequencesExt

CONSTANTS
    Levels,    \* heading levels
    Fences,    \* what a fence can be: its mark, its length, whether an info string follows
    MaxLines   \* bound: the longest file

\* Of the constants.
LinesAssumption ==
    /\ Levels \subseteq 1..6
    /\ Fences \subseteq [mark : {"backticks", "tildes"}, length : Nat, info : BOOLEAN]
    /\ MaxLines \in Nat

VARIABLES
    lines,
    at,       \* the next line
    stack,    \* heading_stack, as line numbers
    buf,      \* line numbers
    inFence,
    blocks,   \* [text: line numbers, path: line numbers of headings]
    pc        \* "scan", then "parsed" or "rejected"

vars == <<lines, at, stack, buf, inFence, blocks, pc>>

Line ==
    [kind : {"text", "blank"}, level : {0}] \cup [kind : {"heading"}, level : Levels]
        \cup [kind : {"fence"}, level : {0}, fence : Fences]

Kind(n)  == lines[n].kind
Level(n) == lines[n].level
Fence(n) == lines[n].fence

Init ==
    /\ lines \in SeqOf(Line, MaxLines)
    /\ at = 1
    /\ stack = <<>> /\ buf = <<>>
    /\ inFence = FALSE
    /\ blocks = <<>>
    /\ pc = "scan"

\* flush(): what strip() leaves of the buffer is a block.
Flush ==
    blocks' = IF \E n \in ToSet(buf) : Kind(n) # "blank"
              THEN Append(blocks, [text |-> buf, path |-> stack])
              ELSE blocks

\* Any fence opens or closes a piece of code, whatever its mark, length and info string.
ScanFence ==
    /\ pc = "scan" /\ at <= Len(lines)
    /\ Kind(at) = "fence"
    /\ inFence' = ~inFence
    /\ buf' = Append(buf, at)
    /\ at' = at + 1
    /\ UNCHANGED <<lines, stack, blocks, pc>>

\* Mutant: equal levels nest.
OpenAboveStrict(n) == SelectSeq(stack, LAMBDA h : Level(h) <= Level(n))

\* The while loop pops from the top every heading of the same level or a deeper one.
OpenAbove(n) ==
    LET kept == {k \in 0..Len(stack) : \A i \in (k + 1)..Len(stack) : Level(stack[i]) >= Level(n)}
    IN  SubSeq(stack, 1, CHOOSE k \in kept : \A j \in kept : k <= j)

ScanHeading ==
    /\ pc = "scan" /\ at <= Len(lines)
    /\ Kind(at) = "heading" /\ ~inFence
    /\ Flush
    /\ buf' = <<>>
    /\ stack' = Append(OpenAbove(at), at)
    /\ at' = at + 1
    /\ UNCHANGED <<lines, inFence, pc>>

\* Text, and what looks like a heading in code.
ScanText ==
    /\ pc = "scan" /\ at <= Len(lines)
    /\ Kind(at) \in {"text", "blank"} \/ (Kind(at) = "heading" /\ inFence)
    /\ buf' = Append(buf, at)
    /\ at' = at + 1
    /\ UNCHANGED <<lines, stack, inFence, blocks, pc>>

\* A file without any text is a ParseError.
EndOfFile ==
    /\ pc = "scan" /\ at > Len(lines)
    /\ Flush
    /\ buf' = <<>>
    /\ pc' = IF blocks' = <<>> THEN "rejected" ELSE "parsed"
    /\ UNCHANGED <<lines, at, stack, inFence>>

Next == ScanFence \/ ScanHeading \/ ScanText \/ EndOfFile

Spec == Init /\ [][Next]_vars

-----------------------------------------------------------------------------
(* Properties. *)

\* The headings a reader would name for line n: those above it that no later heading of
\* the same or a higher rank has closed.
Enclosing(n, headings) ==
    {h \in headings : h < n /\ ~\E g \in headings : h < g /\ g < n /\ Level(g) <= Level(h)}

\* Headings of the file, as the scan has met them: heading lines that are in no block.
Headings ==
    {n \in 1..(at - 1) :
        /\ Kind(n) = "heading"
        /\ n \notin ToSet(buf)
        /\ \A b \in ToSet(blocks) : n \notin ToSet(b.text)}

\* Every block is cited under exactly the headings that enclose it, outermost first.
PathsAreEnclosing ==
    \A b \in ToSet(blocks) :
        /\ \A n \in ToSet(b.text) : Enclosing(n, Headings) = ToSet(b.path)
        /\ \A i, j \in DOMAIN b.path : i < j => b.path[i] < b.path[j] /\ Level(b.path[i]) < Level(b.path[j])

\* No text is lost or filed twice: each line that is not blank and no heading is in
\* exactly one block, and a file is rejected only when there is no such line.
TextIsKept ==
    pc # "scan" =>
        \A n \in 1..Len(lines) :
            Kind(n) # "blank" /\ n \notin Headings =>
                \E i \in DOMAIN blocks :
                    /\ n \in ToSet(blocks[i].text)
                    /\ \A j \in DOMAIN blocks : n \in ToSet(blocks[j].text) => i = j

\* As CommonMark has it, code ends at a bare fence of the mark that opened it, as long or
\* longer.
Closes(n, opening) ==
    /\ Fence(n).mark = Fence(opening).mark
    /\ Fence(n).length >= Fence(opening).length
    /\ ~Fence(n).info

\* The fence whose code is open after each line; 0: none is.
Opening ==
    LET open[n \in 0..Len(lines)] ==
            IF n = 0 THEN 0
            ELSE IF Kind(n) # "fence" THEN open[n - 1]
            ELSE IF open[n - 1] = 0 THEN n
            ELSE IF Closes(n, open[n - 1]) THEN 0
            ELSE open[n - 1]
    IN  open

\* Fences within a piece of code, as text of it.
Quoted ==
    {n \in 1..Len(lines) :
        Kind(n) = "fence" /\ Opening[n - 1] # 0 /\ ~Closes(n, Opening[n - 1])}

\* "'# ...' in code is code": down to the first fence that a piece of code quotes, a
\* line that looks like a heading is one exactly when CommonMark does not read it as code.
CodeIsCode ==
    \A n \in 1..(at - 1) :
        Kind(n) = "heading" /\ (\A m \in Quoted : m > n) => (n \in Headings <=> Opening[n] = 0)

=============================================================================
