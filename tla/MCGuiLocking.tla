---------------------------- MODULE MCGuiLocking ----------------------------
(* Instances of GuiLocking with the locks of pluginmenucall as the code has  *)
(* them: LockPluginMenuList, taken without ProcessGuiEvents, outside of      *)
(* LockPluginCallbackList, taken with it. Every pluginmenu...() function     *)
(* calls the GUI under the former, from whatever thread it is called on, the *)
(* GUI's own included. A lock held exclusively may be taken again in either  *)
(* mode (pluginmenuremove does), one held shared may not. Three scopes are a *)
(* lock, the same lock again, and the other one inside, or a handler's scope *)
(* inside the two of pluginmenucall.                                         *)
EXTENDS GuiLocking

CONSTANTS gui, w1, menuList, callbackList

MCThread == {gui, w1}
MCLock == {menuList, callbackList}
MCNests ==
  {<<l, FALSE, l, s>> : l \in MCLock, s \in BOOLEAN}
  \cup {<<menuList, r, callbackList, s>> : r \in BOOLEAN, s \in BOOLEAN}

\* The order of the two locks, which the theorem about circles asks for.
ASSUME DisciplineAssumption == Disciplined([l \in MCLock |-> IF l = menuList THEN 1 ELSE 2])
=============================================================================
