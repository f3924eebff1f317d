------------------------------- MODULE MCStore -------------------------------
EXTENDS TransitionStore

CONSTANTS worker, keeper, reaper

Req(locs, tasks, loc, msg) == [locs |-> locs, tasks |-> tasks, loc |-> loc, msg |-> msg]

\* With a page size of 5 and a limit of 12: records that fit; that fit once
\* their messages are truncated; of exactly the limit; that are spread over two
\* and three pages when they are finished, run or triggered; with smaller pages
\* at first than at the end; with results that fall between two page sizes.
MCRequests == {Req(2, 2, 1, 1), Req(2, 2, 1, 4), Req(3, 3, 1, 1), Req(4, 4, 1, 1),
               Req(6, 6, 1, 1), Req(7, 6, 1, 3), Req(12, 12, 1, 1), Req(6, 11, 1, 1),
               Req(4, 5, 2, 1)}
=============================================================================
