----------------------------- MODULE HomeGallery -----------------------------
(***************************************************************************)
(* The home page: the gallery is loaded in three parts, the first of them  *)
(* for the pictures behind the title, and from then on pictures and cards  *)
(* are exchanged by timers, while a floating list of the sections comes    *)
(* and goes as the user scrolls. The code is app/page.tsx of the web.      *)
(***************************************************************************)
EXTENDS Naturals, FiniteSets, Sequences, SequencesExt

CONSTANTS Items,           \* a picture is a number, a better one a smaller one
          Categories,      \* numbers too, in the order of the sections
          CategoryOf,
          Featured,        \* per category: the pictures its section starts with
          HeroIds, HeroPool, HeroCategories,
          HeroCount, Replacements,
          InitialSections, CardsPerSection, RotationLimit

ConstantsOK ==
  /\ Items \subseteq Nat /\ IsFiniteSet(Items) /\ Categories \subseteq Nat
  /\ CategoryOf \in [Items -> Categories] /\ Featured \in [Categories -> SUBSET Items]
  /\ HeroIds \subseteq HeroPool /\ HeroPool \subseteq Items
  /\ \A c \in Categories : Cardinality(Featured[c]) <= CardsPerSection
  /\ HeroCount \in Nat \ {0} /\ Replacements \subseteq Nat \ {0}
  /\ InitialSections \in Nat /\ CardsPerSection \in Nat /\ RotationLimit \in Nat

VARIABLES
  load,      \* where loadHomeGallery is
  visible,   \* visibleCategories
  items,     \* what has been loaded
  hero,      \* heroItems
  slides,    \* heroSlideItems
  sections,  \* gallerySections: per category its cards and what may replace them
  scroll,    \* the section at the top of the window, 0 above the first
  below,     \* the window is scrolled by more than 180 pixels
  recent,    \* the user moved less than 700 ms ago
  frame,     \* ticking: the list will be brought up to date
  active,    \* activeGalleryKey
  shown,     \* isGalleryNavVisible
  hiding     \* galleryNavHideTimeoutRef is set

pageVars == <<load, visible, items, hero, slides>>
navVars == <<scroll, below, recent, frame, active, shown, hiding>>
vars == <<pageVars, sections, navVars>>

TypeOK ==
  /\ load \in {"facets", "curated", "initial", "idle", "rest", "done", "failed"}
  /\ visible \subseteq Categories /\ items \subseteq Items
  /\ hero \in Seq(Items) /\ slides \in Seq(Items)
  /\ DOMAIN sections \subseteq Categories
  /\ \A c \in DOMAIN sections :
       /\ sections[c].cards \in Seq(Items) /\ sections[c].rotation \subseteq Items
       /\ Len(sections[c].cards) <= CardsPerSection
  /\ scroll \in Categories \cup {0} /\ active \in Categories \cup {0}
  /\ (scroll # 0 => below) /\ below \in BOOLEAN /\ recent \in BOOLEAN
  /\ frame \in BOOLEAN /\ shown \in BOOLEAN /\ hiding \in BOOLEAN

---------------------------------------------------------------------------
(* What is chosen from what was loaded                                     *)

FirstOf(S, n) == {i \in S : Cardinality({j \in S : j < i}) < n}

(* The score of a picture (its words, tags, size and source), as an order; *)
(* the place of a picture is after those that are better.                  *)
Better(i, j) == i < j
Rank(i, S) == Cardinality({j \in S : Better(j, i)})

sortGalleryItemsByQuality(S) == [k \in 1..Cardinality(S) |-> CHOOSE i \in S : Rank(i, S) = k - 1]

FirstCards(s, n) == SubSeq(s, 1, IF Len(s) < n THEN Len(s) ELSE n)

selectGalleryItems(loaded, preferred, limit, categories) ==
  LET first == preferred \cap loaded
      fallback == {i \in loaded \ first : CategoryOf[i] \in categories}
  IN FirstCards(sortGalleryItemsByQuality(first) \o sortGalleryItemsByQuality(fallback), limit)

shuffleGalleryItems(s) == {t \in [DOMAIN s -> Items] : \A i \in Items :
  Cardinality({k \in DOMAIN s : t[k] = i}) = Cardinality({k \in DOMAIN s : s[k] = i})}

(* The pictures that may take turns behind the title.                      *)
heroRotationPool == ToSet(selectGalleryItems(items, HeroPool, 2 * HeroCount, HeroCategories))

\* Mutant of Candidates: a picture that is shown may be chosen again.
CandidatesAll(pool, current) == pool

Candidates(pool, current) == pool \ ToSet(current)

(* Some pictures give way to others that are not shown. With less than     *)
(* the full number of them this starts from the first ones every time.     *)
buildNextHeroItems(current, primary, pool) ==
  LET base == FirstCards(IF Len(current) >= HeroCount THEN current ELSE primary, HeroCount)
      new == Candidates(pool, base)
      Replaced(n) == {R \in SUBSET DOMAIN base : Cardinality(R) = n}
      Number(k) == CHOOSE n \in {k, Len(base), Cardinality(new)} :
                     n <= k /\ n <= Len(base) /\ n <= Cardinality(new)
  IN UNION {UNION {{[i \in DOMAIN base |-> IF i \in R THEN f[i] ELSE base[i]] :
                      f \in {g \in [R -> new] : IsInjective(g)}} : R \in Replaced(Number(k))}
            : k \in Replacements}

(* One card of a section gives way to another; a featured one never does.  *)
buildNextGallerySection(c) ==
  LET s == sections[c]
      new == Candidates(s.rotation, s.cards)
      replaceable == {i \in DOMAIN s.cards : s.cards[i] \notin Featured[c]}
  IN {[s EXCEPT !.cards = [@ EXCEPT ![i] = p]] : i \in replaceable, p \in new}

buildSections(categories, loaded) ==
  [c \in categories |->
     LET rotation == selectGalleryItems(loaded, Featured[c], RotationLimit, {c})
     IN [cards |-> FirstCards(rotation, CardsPerSection), rotation |-> ToSet(rotation)]]

---------------------------------------------------------------------------
(* The list of sections                                                    *)

\* Mutant of updateGalleryNavState: sections that come in leave the list as it is.
NavLeftAlone(intent) == hiding' = FALSE /\ UNCHANGED <<active, shown, frame>>

(* It is shown for a while below the top if the user moved just now.       *)
updateGalleryNavState(intent) ==
  /\ frame' = FALSE
  /\ active' = scroll
  /\ shown' = (below /\ intent) /\ hiding' = (below /\ intent)

(* The effect on the sections is cleaned up and runs again.                *)
SetSections(new) ==
  /\ sections' = new
  /\ IF DOMAIN new = {} THEN UNCHANGED <<active, shown, hiding, frame>>
                        ELSE updateGalleryNavState(recent)
  /\ UNCHANGED <<scroll, below, recent>>

---------------------------------------------------------------------------
Init ==
  /\ load = "facets" /\ visible = {} /\ items = {} /\ hero = <<>> /\ slides = <<>>
  /\ sections = <<>>
  /\ scroll = 0 /\ below = FALSE /\ active = 0
  /\ recent = FALSE /\ frame = FALSE /\ shown = FALSE /\ hiding = FALSE

(* The categories that have pictures, in their order.                      *)
LoadFacets ==
  /\ load = "facets" /\ load' = "curated"
  /\ visible' \in SUBSET Categories
  /\ UNCHANGED <<items, hero, slides, sections, navVars>>

Curated == HeroIds \cup UNION {Featured[c] : c \in visible}

(* A featured picture that cannot be fetched is left out.                  *)
LoadCurated ==
  /\ load = "curated" /\ load' = "initial"
  /\ items' \in SUBSET Curated
  /\ hero' \in shuffleGalleryItems(selectGalleryItems(items', HeroIds, HeroCount, HeroCategories))
  /\ slides' = hero'
  /\ UNCHANGED <<visible, sections, navVars>>

InCategories(categories) == {i \in Items : CategoryOf[i] \in categories}

LoadInitial ==
  /\ load = "initial"
  /\ LET initial == FirstOf(visible, InitialSections)
     IN /\ items' = items \cup InCategories(initial)
        /\ SetSections(buildSections(initial, items'))
        /\ load' = IF visible = initial THEN "done" ELSE "idle"
  /\ UNCHANGED <<visible, hero, slides>>

(* The rest is loaded when the browser is idle.                            *)
BrowserIdle ==
  /\ load = "idle" /\ load' = "rest"
  /\ UNCHANGED <<visible, items, hero, slides, sections, navVars>>

LoadRest ==
  /\ load = "rest" /\ load' = "done"
  /\ items' = items \cup InCategories(visible)
  /\ SetSections(buildSections(visible, items'))
  /\ UNCHANGED <<visible, hero, slides>>

(* Before the first sections a failure empties the page, but for the       *)
(* pictures that are behind the title by then; a later one is no matter.   *)
LoadFails ==
  /\ load \in {"facets", "initial", "rest"}
  /\ IF load = "rest" THEN load' = "done" /\ UNCHANGED <<items, hero>>
     ELSE load' = "failed" /\ items' = {} /\ hero' = <<>>
  /\ UNCHANGED <<visible, slides, sections, navVars>>

(* The timers of the pictures and of the cards.                            *)
SwapHero ==
  /\ hero # <<>> /\ heroRotationPool # {}
  /\ LET base == FirstCards(IF Len(slides) >= HeroCount THEN slides ELSE hero, HeroCount)
     IN IF Candidates(heroRotationPool, base) = {} THEN slides' = base
        ELSE slides' \in buildNextHeroItems(slides, hero, heroRotationPool)
  /\ UNCHANGED <<load, visible, items, hero, sections, navVars>>

rotateOneGalleryCard ==
  /\ \E c \in DOMAIN sections : \E s \in buildNextGallerySection(c) :
       SetSections([sections EXCEPT ![c] = s])
  /\ UNCHANGED pageVars

---------------------------------------------------------------------------
(* The user scrolls: with the wheel, a finger or a key (which is noticed   *)
(* before), with the scroll bar, or by a link of the list.                 *)

Listening == DOMAIN sections # {}

markGalleryNavIntent ==
  /\ Listening
  /\ recent' = TRUE
  /\ IF below THEN shown' = TRUE /\ hiding' = TRUE ELSE UNCHANGED <<shown, hiding>>
  /\ UNCHANGED <<pageVars, sections, scroll, below, frame, active>>

IntentAges ==
  /\ recent /\ recent' = FALSE
  /\ UNCHANGED <<pageVars, sections, scroll, below, frame, active, shown, hiding>>

(* The links of the list, and the places of the page.                      *)
NavLinks == IF Listening THEN DOMAIN sections \cup {0} ELSE {}

Scroll(place) ==
  /\ place \in NavLinks
  /\ scroll' = place /\ below' \in {TRUE, place # 0} /\ frame' = TRUE
  /\ UNCHANGED <<pageVars, sections, recent, active, shown, hiding>>

NextFrame ==
  /\ frame
  /\ updateGalleryNavState(recent)
  /\ UNCHANGED <<pageVars, sections, scroll, below, recent>>

HideNav ==
  /\ hiding /\ hiding' = FALSE /\ shown' = FALSE
  /\ UNCHANGED <<pageVars, sections, scroll, below, recent, frame, active>>

---------------------------------------------------------------------------
(* What the page shows                                                     *)

activeHeroItems == IF slides # <<>> THEN slides ELSE hero

HeroTiles == FirstCards(activeHeroItems, HeroCount)

Cards(c) == sections[c].cards

Loading == LoadFacets \/ LoadCurated \/ LoadInitial \/ BrowserIdle \/ LoadRest \/ LoadFails

Next ==
  \/ Loading \/ SwapHero \/ rotateOneGalleryCard
  \/ markGalleryNavIntent \/ IntentAges \/ NextFrame \/ HideNav
  \/ \E place \in Categories \cup {0} : Scroll(place)

Spec == Init /\ [][Next]_vars

---------------------------------------------------------------------------
(* However loads and timers follow each other, no picture is twice among   *)
(* those the wall behind the title is made of, or in a section (a card is  *)
(* keyed by its picture), and a featured picture that a section has stays. *)
CardsDistinct ==
  /\ IsInjective(HeroTiles)
  /\ \A c \in DOMAIN sections :
       /\ IsInjective(Cards(c))
       /\ Featured[c] \cap sections[c].rotation \subseteq ToSet(Cards(c))

(* The list of sections is never left on the screen: its timer is set as   *)
(* long as it is shown, though every card that is exchanged starts it all  *)
(* anew. It marks the section that is read, but for a frame.               *)
NavAttended ==
  /\ shown => hiding
  /\ ~frame /\ Listening => active = scroll
=============================================================================
