-------------------------------- MODULE MCRunner --------------------------------
(* Instances of Runner for TLC: crontabs and the minutes to match them with. *)
EXTENDS Runner, TLC

Line(minute, hour, date, month, dow) ==
  [pattern |-> [minute |-> minute, hour |-> hour, date |-> date, month |-> month, dow |-> dow],
   options |-> <<>>, id |-> "id", task |-> "task", payload |-> "none"]

Every == <<Wildcard>>
Option(k, v) == [key |-> k, valid |-> v]
AtNoon == Line(<<Number(0)>>, <<Number(12)>>, Every, Every, Every)
With(line, options) == [line EXCEPT !.options = options]

Minutes == {<<Number(59), Number(0), Number(59)>>, <<Steps(15), Interval(58, 70)>>, <<Number(60)>>}
Hours == {<<Interval(20, 23), Steps(7)>>, <<Interval(12, 12)>>}
Months == {<<Steps(2)>>, <<Steps(5), Number(12)>>, <<Steps(0)>>}
Dates == {Every, <<Number(1), Interval(1, 31)>>, <<Steps(2)>>, <<Number(31), Number(31)>>,
          <<Interval(2, 30), Number(1), Number(30)>>}
Dows == {Every, <<Number(7)>>, <<Interval(5, 7)>>, <<Interval(0, 7)>>, <<Number(1), Interval(0, 5)>>,
         <<Interval(8, 9)>>, <<Number(0), Number(7), Number(3)>>}

MCCrontabs ==
  {<<>>}
  \cup {<<Line(m, Every, Every, Every, Every)>> : m \in Minutes}
  \cup {<<Line(Every, h, Every, Every, Every)>> : h \in Hours}
  \cup {<<Line(Every, Every, Every, m, Every)>> : m \in Months}
  \cup {<<Line(Every, Every, a, Every, w)>> : a \in Dates, w \in Dows}
  \cup {<<AtNoon, o>> : o \in {
          AtNoon,
          [AtNoon EXCEPT !.task = "other"],
          With(AtNoon, <<Option("id", TRUE), Option("fill", TRUE)>>),
          With(AtNoon, <<Option("id", TRUE), Option("id", TRUE)>>),
          With(AtNoon, <<Option("max", FALSE)>>),
          With(AtNoon, <<Option("mode", TRUE)>>),
          [AtNoon EXCEPT !.task = "other", !.payload = "malformed"],
          [AtNoon EXCEPT !.task = "other", !.pattern.hour = <<Nonsense>>]}}

MCDigests ==
  [minute : {0, 15, 59}, hour : {0, 12, 23}, date : {1, 2, 15, 31}, month : {1, 2, 12},
   dow : {0, 1, 3, 6}]
===============================================================================
