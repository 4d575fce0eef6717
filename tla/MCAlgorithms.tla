------------------------------ MODULE MCAlgorithms ------------------------------
EXTENDS Algorithms

\* Apostrophe, s, l, a, 0, acute accent, space, tab, newline, exclamation mark.
MCLetters == {39, 115, 108, 97, 48, 769, 32, 9, 10, 33}
\* a, <, >, a with acute, acute and grave above, dot below, three Hangul jamo, a syllable.
MCRaw == {97, 60, 62, 225, 769, 768, 803, 4352, 4449, 4520, 44032}
MCAdded == << [name |-> <<60, 97>>, special |-> TRUE, kind |-> 3],
              [name |-> <<97, 62>>, special |-> FALSE, kind |-> 4],
              [name |-> <<60, 97, 62>>, special |-> TRUE, kind |-> 3] >>
\* A letter, continuations, leads of two, three and four bytes with their bad seconds.
MCOctets == {65, 130, 160, 195, 224, 237, 240}
=============================================================================
