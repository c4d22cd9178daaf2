------------------------------ MODULE MCNginx -------------------------------
(* The files of configuration that Nginx is checked with. *)
EXTENDS Nginx

Line(kind, name, value) == [kind |-> kind, name |-> name, value |-> value]

Comment == Line("other", "workerprocesses", 9)
Workerprocesses(n) == Line("item", "workerprocesses", n)
LogLevel == Line("item", "loglevel", 8)

MCFiles ==
  {NoFile, <<>>, <<Comment, LogLevel>>, <<LogLevel, Workerprocesses(2), Workerprocesses(1)>>,
   <<Workerprocesses(0)>>}
=============================================================================
