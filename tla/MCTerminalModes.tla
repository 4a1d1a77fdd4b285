--------------------------- MODULE MCTerminalModes ----------------------------
EXTENDS TerminalModes

App == [raw |-> TRUE, screen |-> "alternate", mouse |-> "capture", keyboard |-> "enhanced",
        paste |-> TRUE, nowrap |-> TRUE, title |-> "app", cursor |-> "hidden", sync |-> TRUE]
Plain == [raw |-> FALSE, screen |-> "main", mouse |-> "off", keyboard |-> "enhanced",
          paste |-> FALSE, nowrap |-> FALSE, title |-> "none", cursor |-> "shown", sync |-> FALSE]
MCDesired == {App, Plain}
=============================================================================
