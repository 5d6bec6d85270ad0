----------------------------- MODULE HtmlBlocks -----------------------------
(***************************************************************************)
(* The HTML parser: a walk over the headings and the text elements of a    *)
(* page in document order.  Text elements nest (a paragraph in a list item *)
(* in a quotation), and the text of one is all the text inside it.         *)
(***************************************************************************)
EXTENDS Naturals, Sequences, SequencesExt

CONSTANTS
    Levels,      \* heading levels
    MaxElements  \* bound: the largest page

\* Of the constants.
ElementsAssumption == Levels \subseteq 1..6 /\ MaxElements \in Nat

VARIABLES
    page,    \* the elements, in document order, scripts and styles removed
    at,      \* the next element
    stack,   \* heading_stack, as elements
    blocks,  \* [of: a text element, path: heading elements]
    pc       \* "read", "walk", then "parsed" or "rejected"

vars == <<page, at, stack, blocks, pc>>

\* "text": a tag of _TEXT_TAGS; "other": any other tag; said: there is text directly in it.
Element == [tag : {"text", "other"}, level : {0}, said : BOOLEAN, parent : 0..MaxElements]
           \cup [tag : {"heading"}, level : Levels, said : BOOLEAN, parent : 0..MaxElements]

\* The elements that p names as the ancestors of n, which come before it.
Ancestors(p, n) ==
    LET up[i \in 0..Len(p)] == IF i = 0 THEN {} ELSE {p[i].parent} \cup up[p[i].parent]
    IN  up[n] \ {0}

\* In document order an element's parent is the one before it, or encloses that one.
MayHold(p, m) == m = 0 \/ m = Len(p) \/ m \in Ancestors(p, Len(p))

Init ==
    /\ page = <<>>
    /\ at = 1
    /\ stack = <<>> /\ blocks = <<>>
    /\ pc = "read"

\* BeautifulSoup reads the page, whatever it is, element by element.
ReadElement ==
    /\ pc = "read" /\ Len(page) < MaxElements
    /\ \E e \in Element : MayHold(page, e.parent) /\ page' = Append(page, e)
    /\ UNCHANGED <<at, stack, blocks, pc>>

ReadEnd ==
    /\ pc = "read"
    /\ pc' = "walk"
    /\ UNCHANGED <<page, at, stack, blocks>>

Tag(n)   == page[n].tag
Level(n) == page[n].level
Inside(n) == {m \in DOMAIN page : n = m \/ n \in Ancestors(page, m)}

\* get_text() of an element is not empty.
HasText(n) == \E m \in Inside(n) : page[m].said

\* The while loop pops from the top every heading of the same level or a deeper one.
OpenAbove(n) ==
    LET kept == {k \in 0..Len(stack) : \A i \in (k + 1)..Len(stack) : Level(stack[i]) >= Level(n)}
    IN  SubSeq(stack, 1, CHOOSE k \in kept : \A j \in kept : k <= j)

\* A heading without a title is passed over.
VisitHeading ==
    /\ pc = "walk" /\ at <= Len(page)
    /\ Tag(at) = "heading"
    /\ stack' = IF HasText(at) THEN Append(OpenAbove(at), at) ELSE stack
    /\ at' = at + 1
    /\ UNCHANGED <<page, blocks, pc>>

\* Mutant: only the parent itself is looked at.
OutermostByParent(n) == page[n].parent = 0 \/ Tag(page[n].parent) # "text"

\* find_parent(): no text element encloses this one.
Outermost(n) == \A m \in Ancestors(page, n) : Tag(m) # "text"

VisitText ==
    /\ pc = "walk" /\ at <= Len(page)
    /\ Tag(at) = "text"
    /\ blocks' = IF Outermost(at) /\ HasText(at) THEN Append(blocks, [of |-> at, path |-> stack])
                                                 ELSE blocks
    /\ at' = at + 1
    /\ UNCHANGED <<page, stack, pc>>

\* find_all() does not return the other elements.
PassOver ==
    /\ pc = "walk" /\ at <= Len(page)
    /\ Tag(at) = "other"
    /\ at' = at + 1
    /\ UNCHANGED <<page, stack, blocks, pc>>

\* A page without any text in a text element is a ParseError.
EndOfPage ==
    /\ pc = "walk" /\ at > Len(page)
    /\ pc' = IF blocks = <<>> THEN "rejected" ELSE "parsed"
    /\ UNCHANGED <<page, at, stack, blocks>>

Next == ReadElement \/ ReadEnd \/ VisitHeading \/ VisitText \/ PassOver \/ EndOfPage

Spec == Init /\ [][Next]_vars

-----------------------------------------------------------------------------
(* Properties. *)

\* However text elements nest, what is written in them is in exactly one block: never
\* twice, never lost with the element around it.
TextOnce ==
    pc \in {"parsed", "rejected"} =>
        \A n \in DOMAIN page :
            page[n].said /\ (Tag(n) = "text" \/ ~Outermost(n)) =>
                \E i \in DOMAIN blocks :
                    \A j \in DOMAIN blocks : n \in Inside(blocks[j].of) <=> i = j

\* Every block is cited under exactly the titled headings that a reader would name for
\* it: those before it that no later heading of the same or a higher rank has closed.
PathsAreEnclosing ==
    \A b \in ToSet(blocks) :
        LET before == {h \in 1..(b.of - 1) : Tag(h) = "heading" /\ HasText(h)}
        IN  /\ ToSet(b.path) = {h \in before : \A g \in before : h < g => Level(g) > Level(h)}
            /\ \A i, j \in DOMAIN b.path : i < j => b.path[i] < b.path[j]

=============================================================================
