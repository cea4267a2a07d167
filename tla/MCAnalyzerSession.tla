------------------------- MODULE MCAnalyzerSession -------------------------
(* Captures, requests and clients of the analyzer as model values. *)
EXTENDS AnalyzerSession

CONSTANTS eth, file, other, open1, open2, stop1, tab, view

LiveAndFile == {eth, file}
LiveAndFiles == {eth, file, other}
OnlyLive == {eth}
NoOne == {}
OneStarter == {open1}
TwoStarters == {open1, open2}
OneStopper == {stop1}
OneTab == {tab}
OneViewer == {view}
=============================================================================
