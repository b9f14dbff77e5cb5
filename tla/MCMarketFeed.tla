---------------------------- MODULE MCMarketFeed ----------------------------
\* Small instances of MarketFeed for TLC.
EXTENDS MarketFeed

CONSTANTS c1

\* Two-minute bars are derived; four-minute ones, like the week's, only viewed.
DeriveTwo == <<2>>
=============================================================================
