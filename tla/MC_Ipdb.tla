------------------------------ MODULE MC_Ipdb ------------------------------
(* Two days, the second of which is a day the task tries, two downloads a   *)
(* day and one crash or failed close: the task and a message update at the  *)
(* same time, and a message may begin before midnight and end after.  The   *)
(* view forgets whether a file that nothing refers to any more was complete *)
(* or spoilt, how a complete file was spoilt, the quota of a day that is    *)
(* over and the date of an attempt that is over.                            *)
EXTENDS Ipdb

MCWindow == {2}

MCFile == 1 .. 6        \* at most: two names in temp, three in data, one removed
MCHandle == 1 .. 5

Live(u) == IF update[u].pc \in {"allow", "begin"} THEN [update[u] EXCEPT !.date = 0] ELSE update[u]

View ==
    <<clock, phase, data, temp, whole \intersect Held, writer, handle, wrapper, Used,
      Live(Task), Live(Message), cleaner, lookup, fetched - carried, newest,
      (spoilt \intersect Held) \ whole>>
=============================================================================
