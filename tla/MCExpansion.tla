------------------------------ MODULE MCExpansion ------------------------------
(* Units with up to three inline modules, or with an interface of up to three  *)
(* methods under plain, exclusive, nested and irrelevant conditions.           *)
EXTENDS Expansion

CONSTANTS f, g, ping

F == Flag(f)

Conditionals ==
  {<<>>,
   <<Cfg(F)>>,
   <<Cfg(Not(F))>>,
   <<Other, CfgAttr(F, <<Other>>)>>,
   <<CfgAttr(Flag(g), <<Other, Cfg(F)>>)>>,
   <<Cfg(Flag(g)), CfgAttr(Flag(g), <<CfgAttr(F, <<Cfg(Not(F))>>), Other>>)>>}

TwoFlags == {f, g}
OneName  == {ping}
===============================================================================
