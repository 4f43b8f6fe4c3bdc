CONSTANTS
  gui = gui
  w1 = w1
  menuList = menuList
  callbackList = callbackList
  Thread <- MCThread
  Gui <- gui
  Lock <- MCLock
  None = None
  MaxScopes = 3
  Nests <- MCNests
  GuiScopes = {callbackList}
  Callers = {gui, w1}
  CallUnder = {menuList}
CHECK_DEADLOCK FALSE
SPECIFICATION GuiSpec
INVARIANTS
  TypeOK
  ExclusiveAlone
  BooksExact
  CirclesBlockTheGui
