------------------------------ MODULE MCPages ------------------------------
(* An instance of WebPages for TLC. *)
EXTENDS WebPages, TLC

CONSTANTS m1, m2, m3, m4, c1, c2, c3, r1, r2

\* Five pictures of two categories, the third one featured.
PictureCategory == <<1, 2, 1, 2, 1>>
FeaturedPictures == <<{3}, {}>>

\* Two images of successive days, no number of days typed, a page per tab.
Successive == [i \in Images |-> IF i = m1 THEN 1 ELSE 2]
NoNumber == {-1}
OwnTab == [p \in Pages |-> p]
OneTurn == [i \in TurnImages |-> m3]

\* Three seeds, two of them of one category, without tags.
ThreeSeeds == <<m1, m2, m3>>
FirstApart == [i \in {m1, m2, m3} |-> IF i = m1 THEN c1 ELSE c2]
Untagged == [i \in {m1, m2, m3} |-> {}]

RequestsOf == [users |-> 2, library |-> 2, share |-> 2]
ChangesOf == [setup |-> 3, history |-> 2, library |-> 2, seeds |-> 3, share |-> 5, log |-> 3]
FaultsOf == [settings |-> 1, users |-> 1, setup |-> 2, history |-> 1, library |-> 1,
             seeds |-> 1, share |-> 1, log |-> 1, tabs |-> 0]

\* The runners of the tabs may be exchanged.
SymmetricRunners == Permutations(Runners)
=============================================================================
