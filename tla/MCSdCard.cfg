\* Three tries; four failures of a sound card, two changes of the card.
CONSTANTS
  Cards <- MCCards
  CardMHz = 6
  Tries = 3
  MaxGlitches = 4
  MaxSwaps = 2
  NoCard = NoCard
SPECIFICATION FairSpec
INVARIANTS Released CardsOwnClock SettlesOnBest TriesHide
PROPERTIES NeverForeign TriesEnd
