----------------------------- MODULE MCSettings -----------------------------
EXTENDS Settings

\* Files with a mode or a language that does not exist, and one the program wrote.
MCHandMade == {[DefaultConfig EXCEPT !.power = "turbo"],
               [DefaultConfig EXCEPT !.lang = "de"],
               [DefaultConfig EXCEPT !.power = "quiet", !.start = TRUE, !.source = "cpu"]}

\* A file another machine exported, and one in a language unknown here.
MCImports  == {[DefaultConfig EXCEPT !.power = "performance", !.start = TRUE],
               [DefaultConfig EXCEPT !.fan = "own", !.lang = "fr"]}
=============================================================================
